---- MODULE Spec2Model ----
(***************************************************************************)
(* Model of services::BonjourServer (mDNS responder): the datagram         *)
(* handler DataReceived, the buffer grant SendStreamAvailable, the         *)
(* two-pass QuestionParser and the Answer builder.                         *)
(*                                                                         *)
(* Bytes are naturals 0..255, a datagram is a sequence of bytes, stream    *)
(* offsets are 0-based (the byte at offset p of data is data[p + 1]).      *)
(***************************************************************************)
EXTENDS Naturals, Integers, Sequences, FiniteSets, TLC

(***************************************************************************)
(* Bounds of the model.                                                    *)
(***************************************************************************)
\* questions per generated query
MaxQuestions == 2

(***************************************************************************)
(* Program constants.                                                      *)
(***************************************************************************)
mdnsPort == 5353
mdnsMulticastAddress == <<224, 0, 0, 251>>

\* DnsType / DnsClass enumerators and the layout sizes of the wire structs
dnsTypeA == 1
dnsTypePtr == 12
dnsTypeTxt == 16
dnsTypeAAAA == 28
dnsTypeSrv == 33
dnsClassIn == 1
SizeofDnsRecordHeader == 12
SizeofDnsQuestionFooter == 4
\* the compression pointer to the name behind the DnsRecordHeader (defined by the
\* source, used by none of its operations)
rnameCompression == <<192, SizeofDnsRecordHeader>>

\* infra::none
none == <<>>

(***************************************************************************)
(* Wire codec primitives.                                                  *)
(***************************************************************************)
Min(a, b) == IF a < b THEN a ELSE b

\* infra::BigEndian<uint16_t>: two bytes, most significant first
U16(n) == <<(n \div 256) % 256, n % 256>>

\* infra::BigEndian<uint32_t>
U32(n) == <<(n \div 16777216) % 256, (n \div 65536) % 256, (n \div 256) % 256, n % 256>>

\* the big-endian 16-bit field number i (1-based) of a byte sequence
U16At(bytes, i) == bytes[2 * i - 1] * 256 + bytes[2 * i]

\* a byte sequence padded with zero bytes up to n bytes
ZeroPad(bytes, n) == [i \in 1..n |-> IF i <= Len(bytes) THEN bytes[i] ELSE 0]

\* DnsRecordHeader flags: the opcode field (flagsOpcodeMask 0x7800) and the
\* response bit (flagsResponse 0x8000)
FlagsOpcode(flags) == (flags \div 2048) % 16
FlagsResponseBit(flags) == (flags \div 32768) % 2
flagsResponse == 32768

\* DnsRecordHeader as streamed: id, flags, questions, answers, name servers, additional
HeaderBytes(id, flags, qd, an, ns, ar) ==
    U16(id) \o U16(flags) \o U16(qd) \o U16(an) \o U16(ns) \o U16(ar)

\* DnsRecordPayload as streamed: type, class, ttl, resource data length
PayloadBytes(type, class, ttl, rdlength) ==
    U16(type) \o U16(class) \o U32(ttl) \o U16(rdlength)

RECURSIVE EncodeParts(_)
\* the labels of a DnsHostnameParts, each preceded by its length byte
EncodeParts(parts) ==
    IF parts = <<>> THEN <<>>
    ELSE <<Len(Head(parts))>> \o Head(parts) \o EncodeParts(Tail(parts))

\* stream << infra::text << DnsHostnameParts: the labels and the terminating zero label
EncodeHostname(parts) == EncodeParts(parts) \o <<0>>

\* DnsHostnameParts::StreamedSize
StreamedSize(parts) == Len(EncodeHostname(parts))

(***************************************************************************)
(* Stream reader with rewinding (the datagram's reader).                   *)
(***************************************************************************)
\* reader.Extract of n bytes at offset pos: the bytes available, whether all n
\* were there, and the offset after the read
Extract(data, pos, n) ==
    [ok    |-> pos + n <= Len(data),
     bytes |-> SubSeq(data, pos + 1, Min(pos + n, Len(data))),
     pos   |-> Min(pos + n, Len(data))]

RECURSIVE ReadLabels(_, _, _, _, _)
\* DnsHostnamePartsStream: the labels of the name at offset p. jumped: a
\* compression pointer was followed already; final: the offset behind the
\* first pointer (-1 when none was met); acc: the labels read so far. failed:
\* the name is no name: it runs beyond the end of the data, a pointer leads
\* beyond it or to another pointer, or a label is longer than 63 bytes
ReadLabels(data, p, jumped, final, acc) ==
    IF p >= Len(data)
    THEN [labels |-> acc, pos |-> Len(data), final |-> final, failed |-> TRUE]
    ELSE LET size == data[p + 1] IN
         IF size >= 192
         THEN IF p + 1 >= Len(data)
              THEN [labels |-> acc, pos |-> Len(data),
                    final |-> IF final = -1 THEN Len(data) ELSE final, failed |-> TRUE]
              ELSE IF jumped
                   THEN [labels |-> acc, pos |-> p + 2, final |-> final, failed |-> TRUE]
                   ELSE ReadLabels(data, (size - 192) * 256 + data[p + 2], TRUE, p + 2, acc)
         ELSE IF size = 0
              THEN [labels |-> acc, pos |-> p + 1, final |-> final, failed |-> FALSE]
              ELSE IF size > 63
                   THEN [labels |-> acc, pos |-> p + 1, final |-> final, failed |-> TRUE]
                   ELSE IF p + 1 + size > Len(data)
                        THEN [labels |-> acc, pos |-> Len(data), final |-> final,
                              failed |-> TRUE]
                        ELSE ReadLabels(data, p + 1 + size, jumped, final,
                                        Append(acc, SubSeq(data, p + 2, p + 1 + size)))

\* DnsHostnamePartsStream over the reader at offset pos, consumed to its end
\* (ConsumeStream rewinds to the offset behind a compression pointer); failed:
\* the decoder could not decode the name (a state of the decoder's own stream)
DnsHostnamePartsStream(data, pos) ==
    LET r == ReadLabels(data, pos, FALSE, -1, <<>>)
    IN  [labels |-> r.labels, pos |-> IF r.final # -1 THEN r.final ELSE r.pos,
         failed |-> r.failed]

(***************************************************************************)
(* Hostname matcher.                                                       *)
(***************************************************************************)
RECURSIVE JoinLabels(_)
\* ReadHostname's loop: the labels joined by '.' (byte 46)
JoinLabels(labels) ==
    IF labels = <<>> THEN <<>>
    ELSE IF Len(labels) = 1 THEN Head(labels)
    ELSE Head(labels) \o <<46>> \o JoinLabels(Tail(labels))

RECURSIVE SplitAtDots(_, _, _)
\* DnsHostnamePartsString: the tokens of a dot-joined name, separator '.'
SplitAtDots(text, current, acc) ==
    IF text = <<>> THEN Append(acc, current)
    ELSE IF Head(text) = 46 THEN SplitAtDots(Tail(text), <<>>, Append(acc, current))
    ELSE SplitAtDots(Tail(text), Append(current, Head(text)), acc)

DnsHostnamePartsString(hostname) ==
    IF hostname = <<>> THEN <<>> ELSE SplitAtDots(hostname, <<>>, <<>>)

RECURSIVE MatchComponents(_, _)
\* the loop of HostNameIs: consume equal leading parts, succeed when both are used up
MatchComponents(parts, components) ==
    IF components # <<>> /\ parts # <<>> /\ Head(parts) = Head(components)
    THEN MatchComponents(Tail(parts), Tail(components))
    ELSE parts = <<>> /\ components = <<>>

HostNameIs(reconstructedHostname, components) ==
    MatchComponents(DnsHostnamePartsString(reconstructedHostname), components)

\* the literal "local"
local == <<108, 111, 99, 97, 108>>

MyFullInstanceName(srv, hostname) ==
    HostNameIs(hostname, <<srv.instance, srv.serviceName, srv.type, local>>)

MyShortInstanceName(srv, hostname) ==
    HostNameIs(hostname, <<srv.instance, local>>)

MyServiceName(srv, hostname) ==
    HostNameIs(hostname, <<srv.serviceName, srv.type, local>>)

(***************************************************************************)
(* Stream writers: the CountingStreamWriter of the dry run and the writer  *)
(* the datagram exchange grants (capacity: the size that was requested).   *)
(***************************************************************************)
CountingStreamWriter ==
    [kind |-> "counting", processed |-> 0, data |-> <<>>, capacity |-> 0, overflow |-> FALSE]

GrantedWriter(size) ==
    [kind |-> "buffer", processed |-> 0, data |-> <<>>, capacity |-> size, overflow |-> FALSE]

\* StreamWriter::Insert: the counting writer counts, the granted writer stores
\* what fits and notes an insert beyond its capacity
Insert(w, bytes) ==
    IF w.kind = "counting"
    THEN [w EXCEPT !.processed = @ + Len(bytes)]
    ELSE LET room == w.capacity - Len(w.data)
             kept == SubSeq(bytes, 1, Min(Len(bytes), room))
         IN  [w EXCEPT !.data = @ \o kept,
                       !.processed = @ + Len(kept),
                       !.overflow = @ \/ Len(bytes) > room]

\* infra::OverwriteDataStream(stream, marker) << bytes: the bytes at the marker replaced
Overwrite(w, marker, bytes) ==
    IF w.kind = "counting" THEN w
    ELSE [w EXCEPT !.data = [i \in 1..Len(w.data) |->
                                IF i > marker /\ i <= marker + Len(bytes)
                                THEN bytes[i - marker] ELSE w.data[i]]]

(***************************************************************************)
(* Answer builder. The parser state q carries the Answer's fields:         *)
(* present (answer != infra::none), queryId, startMarker, answersCount,    *)
(* additionalRecordsCount, writer; log is the history of records added.    *)
(***************************************************************************)
Logged(q, section, type) == Append(q.log, [section |-> section, type |-> type])

\* Answer::Answer with the start marker taken behind the provisional header
AnswerEmplaceMarkerBehindHeader(q, queryId, writer) ==
    [q EXCEPT !.present = TRUE,
              !.queryId = queryId,
              !.startMarker = writer.processed + SizeofDnsRecordHeader,
              !.answersCount = 0,
              !.additionalRecordsCount = 0,
              !.log = <<>>,
              !.writer = Insert(writer, HeaderBytes(queryId, flagsResponse, 0, 0, 0, 0))]

\* Answer::Answer: the provisional header
AnswerEmplace(q, queryId, writer) ==
    [q EXCEPT !.present = TRUE,
              !.queryId = queryId,
              !.startMarker = writer.processed,
              !.answersCount = 0,
              !.additionalRecordsCount = 0,
              !.log = <<>>,
              !.writer = Insert(writer, HeaderBytes(queryId, flagsResponse, 0, 0, 0, 0))]

AddA(q, srv, dnsHostname) ==
    [q EXCEPT !.writer = Insert(@, EncodeHostname(dnsHostname)
                                \o PayloadBytes(dnsTypeA, dnsClassIn, 60, 4)
                                \o srv.ipv4Address)]

AddAaaa(q, srv, dnsHostname) ==
    [q EXCEPT !.writer = Insert(@, EncodeHostname(dnsHostname)
                                \o PayloadBytes(dnsTypeAAAA, dnsClassIn, 60, 16)
                                \o srv.ipv6Address)]

\* AddPtr whose target is the service name, not the full instance name
AddPtrTargetServiceName(q, srv, dnsHostname) ==
    LET instance == <<srv.serviceName, srv.type, local>>
    IN  [q EXCEPT !.writer = Insert(@, EncodeHostname(dnsHostname)
                                    \o PayloadBytes(dnsTypePtr, dnsClassIn, 60, StreamedSize(instance))
                                    \o EncodeHostname(instance))]

AddPtr(q, srv, dnsHostname) ==
    LET instance == <<srv.instance, srv.serviceName, srv.type, local>>
    IN  [q EXCEPT !.writer = Insert(@, EncodeHostname(dnsHostname)
                                    \o PayloadBytes(dnsTypePtr, dnsClassIn, 60, StreamedSize(instance))
                                    \o EncodeHostname(instance))]

\* AddSrv with a time to live of 120 seconds
AddSrvTtl120(q, srv, dnsHostname) ==
    LET instance == <<srv.instance, local>>
    IN  [q EXCEPT !.writer = Insert(@, EncodeHostname(dnsHostname)
                                    \o PayloadBytes(dnsTypeSrv, dnsClassIn, 120, StreamedSize(instance) + 6)
                                    \o U16(0) \o U16(0) \o U16(srv.port)
                                    \o EncodeHostname(instance))]

AddSrv(q, srv, dnsHostname) ==
    LET instance == <<srv.instance, local>>
    IN  [q EXCEPT !.writer = Insert(@, EncodeHostname(dnsHostname)
                                    \o PayloadBytes(dnsTypeSrv, dnsClassIn, 60, StreamedSize(instance) + 6)
                                    \o U16(0) \o U16(0) \o U16(srv.port)
                                    \o EncodeHostname(instance))]

\* AddTxt whose resource data length counts the terminating zero label that is not written
AddTxtLengthWithTermination(q, srv, dnsHostname) ==
    [q EXCEPT !.writer = Insert(@, EncodeHostname(dnsHostname)
                                \o PayloadBytes(dnsTypeTxt, dnsClassIn, 60, StreamedSize(srv.text))
                                \o EncodeParts(srv.text))]

AddTxt(q, srv, dnsHostname) ==
    [q EXCEPT !.writer = Insert(@, EncodeHostname(dnsHostname)
                                \o PayloadBytes(dnsTypeTxt, dnsClassIn, 60, StreamedSize(srv.text) - 1)
                                \o EncodeParts(srv.text))]

\* AddAAnswer that does not look whether an IPv4 address is configured
AddAAnswerUnconditional(q, srv) ==
    AddA([q EXCEPT !.answersCount = @ + 1, !.log = Logged(q, "answer", dnsTypeA)],
         srv, <<srv.instance, local>>)

AddAAnswer(q, srv) ==
    IF srv.ipv4Address # none
    THEN AddA([q EXCEPT !.answersCount = @ + 1, !.log = Logged(q, "answer", dnsTypeA)],
              srv, <<srv.instance, local>>)
    ELSE q

\* AddAaaaAnswer that fails the query when no IPv6 address is configured
AddAaaaAnswerInvalidates(q, srv) ==
    IF srv.ipv6Address # none
    THEN AddAaaa([q EXCEPT !.answersCount = @ + 1, !.log = Logged(q, "answer", dnsTypeAAAA)],
                 srv, <<srv.instance, local>>)
    ELSE [q EXCEPT !.valid = FALSE]

AddAaaaAnswer(q, srv) ==
    IF srv.ipv6Address # none
    THEN AddAaaa([q EXCEPT !.answersCount = @ + 1, !.log = Logged(q, "answer", dnsTypeAAAA)],
                 srv, <<srv.instance, local>>)
    ELSE q

\* AddPtrAnswer that names the record by the full instance name
AddPtrAnswerFullInstanceName(q, srv) ==
    AddPtr([q EXCEPT !.answersCount = @ + 1, !.log = Logged(q, "answer", dnsTypePtr)],
           srv, <<srv.instance, srv.serviceName, srv.type, local>>)

AddPtrAnswer(q, srv) ==
    AddPtr([q EXCEPT !.answersCount = @ + 1, !.log = Logged(q, "answer", dnsTypePtr)],
           srv, <<srv.serviceName, srv.type, local>>)

AddSrvAnswer(q, srv) ==
    AddSrv([q EXCEPT !.answersCount = @ + 1, !.log = Logged(q, "answer", dnsTypeSrv)],
           srv, <<srv.instance, srv.serviceName, srv.type, local>>)

AddTxtAnswer(q, srv) ==
    AddTxt([q EXCEPT !.answersCount = @ + 1, !.log = Logged(q, "answer", dnsTypeTxt)],
           srv, <<srv.instance, srv.serviceName, srv.type, local>>)

\* AddAAdditional that leaves out an A record the reply already has
AddAAdditionalOnce(q, srv) ==
    IF srv.ipv4Address # none /\ ~\E k \in 1..Len(q.log) : q.log[k].type = dnsTypeA
    THEN AddA([q EXCEPT !.additionalRecordsCount = @ + 1, !.log = Logged(q, "additional", dnsTypeA)],
              srv, <<srv.instance, local>>)
    ELSE q

AddAAdditional(q, srv) ==
    IF srv.ipv4Address # none
    THEN AddA([q EXCEPT !.additionalRecordsCount = @ + 1, !.log = Logged(q, "additional", dnsTypeA)],
              srv, <<srv.instance, local>>)
    ELSE q

AddAaaaAdditional(q, srv) ==
    IF srv.ipv6Address # none
    THEN AddAaaa([q EXCEPT !.additionalRecordsCount = @ + 1, !.log = Logged(q, "additional", dnsTypeAAAA)],
                 srv, <<srv.instance, local>>)
    ELSE q

AddSrvAdditional(q, srv) ==
    AddSrv([q EXCEPT !.additionalRecordsCount = @ + 1, !.log = Logged(q, "additional", dnsTypeSrv)],
           srv, <<srv.instance, srv.serviceName, srv.type, local>>)

AddTxtAdditional(q, srv) ==
    AddTxt([q EXCEPT !.additionalRecordsCount = @ + 1, !.log = Logged(q, "additional", dnsTypeTxt)],
           srv, <<srv.instance, srv.serviceName, srv.type, local>>)

\* Finish that fills in the counts one field early: the answers in the place of
\* the questions, the additional records in the place of the name servers
FinishShiftedCounts(q) ==
    [q EXCEPT !.writer = Overwrite(@, q.startMarker,
                                   HeaderBytes(q.queryId, flagsResponse, q.answersCount, 0,
                                               q.additionalRecordsCount, 0))]

\* Answer::Finish: the header at the start marker rewritten with the counts
\* (nameServersCount is never incremented)
Finish(q) ==
    [q EXCEPT !.writer = Overwrite(@, q.startMarker,
                                   HeaderBytes(q.queryId, flagsResponse, 0, q.answersCount, 0,
                                               q.additionalRecordsCount))]

(***************************************************************************)
(* Query parser. A parser state q has the QuestionParser's members: pos    *)
(* (the reader's offset), failed (stream.Failed()), valid, header, footer, *)
(* reconstructedHostname, and the Answer's fields above.                   *)
(***************************************************************************)
\* the members of a QuestionParser at construction, over a reader at offset pos
NewParser(pos) ==
    [pos |-> pos, failed |-> FALSE, valid |-> TRUE,
     header |-> [id |-> 0, flags |-> 0, questionsCount |-> 0, answersCount |-> 0,
                 nameServersCount |-> 0, additionalRecordsCount |-> 0],
     footer |-> [type |-> 0, class |-> 0],
     reconstructedHostname |-> <<>>,
     present |-> FALSE, queryId |-> 0, startMarker |-> 0,
     answersCount |-> 0, additionalRecordsCount |-> 0,
     writer |-> CountingStreamWriter, log |-> <<>>]

\* stream >> header
ReadHeader(q, data) ==
    LET r == Extract(data, q.pos, SizeofDnsRecordHeader)
        b == ZeroPad(r.bytes, SizeofDnsRecordHeader)
    IN  [q EXCEPT !.pos = r.pos,
                  !.failed = @ \/ ~r.ok,
                  !.header = [id |-> U16At(b, 1), flags |-> U16At(b, 2),
                              questionsCount |-> U16At(b, 3), answersCount |-> U16At(b, 4),
                              nameServersCount |-> U16At(b, 5),
                              additionalRecordsCount |-> U16At(b, 6)]]

\* IsValidQuestion without the check of the name-servers count
IsValidQuestionNoNameServersCheck(q) ==
    IF q.failed THEN FALSE
    ELSE IF FlagsOpcode(q.header.flags) # 0 THEN FALSE
    ELSE IF FlagsResponseBit(q.header.flags) # 0 THEN FALSE
    ELSE IF q.header.answersCount # 0 THEN FALSE
    ELSE IF q.header.additionalRecordsCount # 0 THEN FALSE
    ELSE TRUE

IsValidQuestion(q) ==
    IF q.failed THEN FALSE
    ELSE IF FlagsOpcode(q.header.flags) # 0 THEN FALSE
    ELSE IF FlagsResponseBit(q.header.flags) # 0 THEN FALSE
    ELSE IF q.header.answersCount # 0 THEN FALSE
    ELSE IF q.header.nameServersCount # 0 THEN FALSE
    ELSE IF q.header.additionalRecordsCount # 0 THEN FALSE
    ELSE TRUE

\* ReadHostname: the labels at the reader's offset joined by dots; the reader
\* is left behind the name. The decoder is handed the reader, not the parser's
\* stream, and is not asked whether it failed: stream.Failed() stays as it was
ReadHostname(q, data) ==
    LET hostnameParts == DnsHostnamePartsStream(data, q.pos)
    IN  [q EXCEPT !.reconstructedHostname = JoinLabels(hostnameParts.labels),
                  !.pos = hostnameParts.pos]

\* stream >> footer: the bytes that could be read overwrite the footer member,
\* which keeps the rest of what it held from the question before
ReadFooter(q, data) ==
    LET r == Extract(data, q.pos, SizeofDnsQuestionFooter)
        held == U16(q.footer.type) \o U16(q.footer.class)
        b == r.bytes \o SubSeq(held, Len(r.bytes) + 1, SizeofDnsQuestionFooter)
    IN  [q EXCEPT !.pos = r.pos,
                  !.failed = @ \/ ~r.ok,
                  !.footer = [type |-> U16At(b, 1), class |-> U16At(b, 2)]]

IsFooterValid(q) ==
    IF /\ q.footer.type # dnsTypeA
       /\ q.footer.type # dnsTypeAAAA
       /\ q.footer.type # dnsTypePtr
       /\ q.footer.type # dnsTypeSrv
       /\ q.footer.type # dnsTypeTxt
    THEN FALSE
    ELSE IF q.footer.class # dnsClassIn THEN FALSE
    ELSE TRUE

\* IsQueryForMe that takes a PTR question for its own when it names the full instance
IsQueryForMePtrFullInstance(q, srv) ==
    IF q.footer.type = dnsTypeA /\ MyShortInstanceName(srv, q.reconstructedHostname) THEN TRUE
    ELSE IF q.footer.type = dnsTypeAAAA /\ MyShortInstanceName(srv, q.reconstructedHostname) THEN TRUE
    ELSE IF q.footer.type = dnsTypeSrv /\ MyFullInstanceName(srv, q.reconstructedHostname) THEN TRUE
    ELSE IF q.footer.type = dnsTypeTxt /\ MyFullInstanceName(srv, q.reconstructedHostname) THEN TRUE
    ELSE IF q.footer.type = dnsTypePtr /\ MyFullInstanceName(srv, q.reconstructedHostname) THEN TRUE
    ELSE FALSE

IsQueryForMe(q, srv) ==
    IF q.footer.type = dnsTypeA /\ MyShortInstanceName(srv, q.reconstructedHostname) THEN TRUE
    ELSE IF q.footer.type = dnsTypeAAAA /\ MyShortInstanceName(srv, q.reconstructedHostname) THEN TRUE
    ELSE IF q.footer.type = dnsTypeSrv /\ MyFullInstanceName(srv, q.reconstructedHostname) THEN TRUE
    ELSE IF q.footer.type = dnsTypeTxt /\ MyFullInstanceName(srv, q.reconstructedHostname) THEN TRUE
    ELSE IF q.footer.type = dnsTypePtr /\ MyServiceName(srv, q.reconstructedHostname) THEN TRUE
    ELSE FALSE

\* the switch of ReadQuestion without the case of the TXT question
AnswerDispatchWithoutTxt(q, srv) ==
    CASE q.footer.type = dnsTypeA    -> AddAAnswer(q, srv)
      [] q.footer.type = dnsTypeAAAA -> AddAaaaAnswer(q, srv)
      [] q.footer.type = dnsTypePtr  -> AddPtrAnswer(q, srv)
      [] q.footer.type = dnsTypeSrv  -> AddSrvAnswer(q, srv)
      [] OTHER                       -> [q EXCEPT !.log = Logged(q, "abort", q.footer.type)]

\* the switch of ReadQuestion; aborted: the default branch (std::abort)
AnswerDispatch(q, srv) ==
    CASE q.footer.type = dnsTypeA    -> AddAAnswer(q, srv)
      [] q.footer.type = dnsTypeAAAA -> AddAaaaAnswer(q, srv)
      [] q.footer.type = dnsTypePtr  -> AddPtrAnswer(q, srv)
      [] q.footer.type = dnsTypeSrv  -> AddSrvAnswer(q, srv)
      [] q.footer.type = dnsTypeTxt  -> AddTxtAnswer(q, srv)
      [] OTHER                       -> [q EXCEPT !.log = Logged(q, "abort", q.footer.type)]

\* ReadQuestion that checks the stream only, not the footer
ReadQuestionNoFooterCheck(q, data, srv) ==
    LET Decide(f) ==
            IF f.failed THEN [f EXCEPT !.valid = FALSE]
            ELSE IF IsQueryForMe(f, srv) THEN AnswerDispatch(f, srv)
            ELSE f
    IN  Decide(ReadFooter(ReadHostname(q, data), data))

ReadQuestion(q, data, srv) ==
    LET Decide(f) ==
            IF f.failed \/ ~IsFooterValid(f) THEN [f EXCEPT !.valid = FALSE]
            ELSE IF IsQueryForMe(f, srv) THEN AnswerDispatch(f, srv)
            ELSE f
    IN  Decide(ReadFooter(ReadHostname(q, data), data))

\* ReadQuestionForAdditionalRecords without the case of the SRV question
ReadQuestionForAdditionalRecordsPtrOnly(q, data, srv) ==
    LET Decide(f) ==
            IF IsQueryForMe(f, srv)
            THEN CASE f.footer.type = dnsTypePtr ->
                          AddAaaaAdditional(AddAAdditional(AddSrvAdditional(
                              AddTxtAdditional(f, srv), srv), srv), srv)
                   [] OTHER -> f
            ELSE f
    IN  Decide(ReadFooter(ReadHostname(q, data), data))

\* ReadQuestionForAdditionalRecords that adds SRV before TXT for a PTR question
ReadQuestionForAdditionalRecordsSrvFirst(q, data, srv) ==
    LET Decide(f) ==
            IF IsQueryForMe(f, srv)
            THEN CASE f.footer.type = dnsTypePtr ->
                          AddAaaaAdditional(AddAAdditional(AddTxtAdditional(
                              AddSrvAdditional(f, srv), srv), srv), srv)
                   [] f.footer.type = dnsTypeSrv ->
                          AddAaaaAdditional(AddAAdditional(f, srv), srv)
                   [] OTHER -> f
            ELSE f
    IN  Decide(ReadFooter(ReadHostname(q, data), data))

ReadQuestionForAdditionalRecords(q, data, srv) ==
    LET Decide(f) ==
            IF IsQueryForMe(f, srv)
            THEN CASE f.footer.type = dnsTypePtr ->
                          AddAaaaAdditional(AddAAdditional(AddSrvAdditional(
                              AddTxtAdditional(f, srv), srv), srv), srv)
                   [] f.footer.type = dnsTypeSrv ->
                          AddAaaaAdditional(AddAAdditional(f, srv), srv)
                   [] OTHER -> f
            ELSE f
    IN  Decide(ReadFooter(ReadHostname(q, data), data))

RECURSIVE ReadQuestions(_, _, _, _)
\* for (auto i = 0; valid && i != header.questionsCount; ++i) ReadQuestion();
ReadQuestions(q, data, srv, i) ==
    IF q.valid /\ i # q.header.questionsCount
    THEN ReadQuestions(ReadQuestion(q, data, srv), data, srv, i + 1)
    ELSE q

RECURSIVE ReadQuestionsForAdditionalRecords(_, _, _, _)
\* for (auto i = 0; valid && i != header.questionsCount; ++i) ReadQuestionForAdditionalRecords();
ReadQuestionsForAdditionalRecords(q, data, srv, i) ==
    IF q.valid /\ i # q.header.questionsCount
    THEN ReadQuestionsForAdditionalRecords(ReadQuestionForAdditionalRecords(q, data, srv), data, srv, i + 1)
    ELSE q

\* CreateAnswer without reader.Rewind(startOfQuestions) between the two loops
CreateAnswerNoRewindBetweenPasses(q, data, srv, writer) ==
    LET Discard(second) ==
            IF ~second.valid THEN [second EXCEPT !.present = FALSE] ELSE second
        Additional(first) ==
            Discard(ReadQuestionsForAdditionalRecords(first, data, srv, 0))
        Questions(a) == Additional(ReadQuestions(a, data, srv, 0))
        Validated(h) ==
            IF ~IsValidQuestion(h) THEN [h EXCEPT !.writer = writer]
            ELSE Questions(AnswerEmplace(h, h.header.id, writer))
    IN  Validated(ReadHeader(q, data))

\* CreateAnswer, by its steps from the last to the first: Discard (if (!valid)
\* answer = infra::none), Additional (rewind to the start of the questions, the
\* second loop), Questions (the answer emplaced, the first loop), Validated
\* (the header read and checked)
CreateAnswer(q, data, srv, writer) ==
    LET Discard(second) ==
            IF ~second.valid THEN [second EXCEPT !.present = FALSE] ELSE second
        Additional(first, startOfQuestions) ==
            Discard(ReadQuestionsForAdditionalRecords(
                        [first EXCEPT !.pos = startOfQuestions], data, srv, 0))
        Questions(a) == Additional(ReadQuestions(a, data, srv, 0), a.pos)
        Validated(h) ==
            IF ~IsValidQuestion(h) THEN [h EXCEPT !.writer = writer]
            ELSE Questions(AnswerEmplace(h, h.header.id, writer))
    IN  Validated(ReadHeader(q, data))

\* the dry run leaving the reader where the parse ended
QuestionParserDryRunNoRewind(srv, reader) ==
    CreateAnswer(NewParser(reader.pos), reader.data, srv, CountingStreamWriter)

\* QuestionParser(server, reader): the dry run over the counting writer
QuestionParserDryRun(srv, reader) ==
    [CreateAnswer(NewParser(reader.pos), reader.data, srv, CountingStreamWriter) EXCEPT !.pos = 0]

\* the real pass without the call of Finish
QuestionParserWriteWithoutFinish(srv, reader, writer) ==
    [CreateAnswer(NewParser(reader.pos), reader.data, srv, writer) EXCEPT !.pos = 0]

\* QuestionParser(server, reader, writer): the real pass
QuestionParserWrite(srv, reader, writer) ==
    LET Finished(q) == IF q.present THEN Finish(q) ELSE q
    IN  [Finished(CreateAnswer(NewParser(reader.pos), reader.data, srv, writer)) EXCEPT !.pos = 0]

\* HasAnswer that does not look at the number of answers
HasAnswerIgnoringCount(q) == q.present

\* HasAnswer that takes the provisional header for an answer
HasAnswerCountingHeader(q) == q.present /\ q.writer.processed # 0

HasAnswer(q) == q.present /\ q.answersCount # 0

(***************************************************************************)
(* Inputs: the service identities, the senders and the datagrams the       *)
(* transport may deliver. A datagram is kept by its description d (header  *)
(* fields, questions, bytes cut off its end); Wire(d) is its bytes.        *)
(***************************************************************************)
\* the identity a BonjourServer is constructed with: instance "i", service name
\* "s", type "t", each address configured or not, a port and a TXT text
Servers ==
    {[instance |-> <<105>>, serviceName |-> <<115>>, type |-> <<116>>,
      ipv4Address |-> v4, ipv6Address |-> v6, port |-> 8080,
      text |-> << <<97, 61, 49>> >>] :
        v4 \in {none, <<192, 168, 1, 2>>},
        v6 \in {none, <<254, 128, 0, 0, 0, 0, 0, 0, 0, 0, 0, 0, 0, 0, 0, 1>>}}

\* UdpSocket of a sender: two senders on the mDNS port, one on another port
Senders ==
    {[address |-> <<10, 0, 0, 1>>, port |-> mdnsPort],
     [address |-> <<10, 0, 0, 2>>, port |-> mdnsPort],
     [address |-> <<10, 0, 0, 1>>, port |-> 1024]}

\* the bytes of a question name, by kind
NameWire(name) ==
    CASE name = "short"     -> EncodeHostname(<< <<105>>, local >>)
      [] name = "full"      -> EncodeHostname(<< <<105>>, <<115>>, <<116>>, local >>)
      [] name = "service"   -> EncodeHostname(<< <<115>>, <<116>>, local >>)
      [] name = "other"     -> EncodeHostname(<< <<120>>, local >>)
      [] name = "prefix"    -> EncodeHostname(<< <<105>> >>)
      [] name = "extension" -> EncodeHostname(<< <<105>>, local, <<120>> >>)
      [] name = "servicex"  -> EncodeHostname(<< <<115>>, <<116>>, local, <<120>> >>)
      [] name = "dotted"    -> EncodeHostname(<< <<105, 46>> \o local >>)
      [] name = "dottedsvc" -> EncodeHostname(<< <<115, 46, 116>>, local >>)
      [] name = "root"      -> <<0>>
      [] name = "pointer"   -> <<192, 12>>
      [] name = "chain"     -> <<192, 27>>
      [] name = "beyond"    -> <<192, 255>>
      [] name = "longlabel" -> <<64>> \o [k \in 1..64 |-> 120] \o <<0>>

\* the labels of a question name, by kind (the name "pointer" repeats the name
\* at offset 12, the first question's)
NameLabels(name) == ReadLabels(NameWire(name), 0, FALSE, -1, <<>>).labels

PlainNames ==
    {"short", "full", "service", "other", "prefix", "extension", "servicex",
     "dotted", "dottedsvc", "root"}

\* names that are no names: "chain", behind a first question for the service
\* name, is at offset 27 and points to itself; "beyond" points behind the end of
\* the datagram; "longlabel" has a label of 64 bytes
MalformedNames == {"chain", "beyond", "longlabel"}

SupportedTypes == {dnsTypeA, dnsTypeAAAA, dnsTypePtr, dnsTypeSrv, dnsTypeTxt}

Question(name, type, class) == [name |-> name, type |-> type, class |-> class]

\* the questions that queries of several questions are made of
CoreQuestions ==
    {Question("short", dnsTypeA, dnsClassIn),
     Question("short", dnsTypeAAAA, dnsClassIn),
     Question("service", dnsTypePtr, dnsClassIn),
     Question("full", dnsTypeSrv, dnsClassIn),
     Question("full", dnsTypeTxt, dnsClassIn),
     Question("other", dnsTypeA, dnsClassIn),
     Question("other", 2, dnsClassIn),
     Question("pointer", dnsTypePtr, dnsClassIn)}

\* the questions of the single-question queries: every name with every
\* supported type, and unsupported types and classes
SingleQuestions ==
    {Question(n, t, dnsClassIn) : n \in PlainNames, t \in SupportedTypes}
    \cup {Question(n, t, dnsClassIn) : n \in {"short", "service", "other"}, t \in {0, 2, 255}}
    \cup {Question(n, t, c) : n \in {"short", "full", "service"}, t \in SupportedTypes, c \in {0, 3, 32769}}

QuestionLists == UNION {[1..k -> CoreQuestions] : k \in 0..MaxQuestions}

Datagram(id, flags, qd, an, ns, ar, questions, cut) ==
    [id |-> id, flags |-> flags, questionsCount |-> qd, answersCount |-> an,
     nameServersCount |-> ns, additionalRecordsCount |-> ar,
     questions |-> questions, cut |-> cut]

Query(id, questions) == Datagram(id, 0, Len(questions), 0, 0, 0, questions, 0)

RECURSIVE QuestionsWire(_)
QuestionsWire(questions) ==
    IF questions = <<>> THEN <<>>
    ELSE NameWire(Head(questions).name) \o U16(Head(questions).type)
         \o U16(Head(questions).class) \o QuestionsWire(Tail(questions))

\* the bytes of a datagram before any are cut off
FullWire(d) ==
    HeaderBytes(d.id, d.flags, d.questionsCount, d.answersCount, d.nameServersCount,
                d.additionalRecordsCount) \o QuestionsWire(d.questions)

Wire(d) == SubSeq(FullWire(d), 1, Len(FullWire(d)) - d.cut)

\* query lists the malformed datagrams are derived from
BaseLists ==
    {<<>>,
     <<Question("service", dnsTypePtr, dnsClassIn)>>,
     <<Question("short", dnsTypeA, dnsClassIn), Question("full", dnsTypeSrv, dnsClassIn)>>,
     <<Question("service", dnsTypePtr, dnsClassIn), Question("pointer", dnsTypePtr, dnsClassIn)>>}

\* queries with a name that is malformed, alone and behind a question that
\* is answered
MalformedNameQueries ==
    {Query(4660, <<Question(n, t, dnsClassIn)>>) :
         n \in MalformedNames \ {"chain"}, t \in {dnsTypeA, dnsTypePtr}}
    \cup {Query(4660, <<Question("service", dnsTypePtr, dnsClassIn), Question(n, t, dnsClassIn)>>) :
              n \in MalformedNames, t \in {dnsTypeA, dnsTypePtr}}

WellFormedQueries ==
    {Query(4660, l) : l \in QuestionLists}
    \cup {Query(4660, <<x>>) : x \in SingleQuestions}
    \cup {Datagram(id, flags, Len(l), 0, 0, 0, l, 0) :
              id \in {0, 65535}, flags \in {0, 256}, l \in BaseLists}

\* headers that are no query: an opcode other than QUERY, the response bit,
\* a nonzero answers, name-servers or additional-records count
BadHeaderDatagrams ==
    {Datagram(4660, h[1], Len(l), h[2], h[3], h[4], l, 0) :
         h \in {<<2048, 0, 0, 0>>, <<10240, 0, 0, 0>>, <<32768, 0, 0, 0>>, <<33792, 0, 0, 0>>,
                <<0, 1, 0, 0>>, <<0, 0, 1, 0>>, <<0, 0, 0, 1>>, <<0, 256, 0, 0>>},
         l \in BaseLists}

\* datagrams with bytes missing at the end: every proper prefix of a query
TruncatedDatagrams ==
    UNION {{Datagram(4660, 0, Len(l), 0, 0, 0, l, cut) : cut \in 1..Len(FullWire(Query(4660, l)))} :
               l \in BaseLists}

\* datagrams whose header declares more, or fewer, questions than are present
MiscountedDatagrams ==
    {Datagram(4660, 0, Len(l) + 1, 0, 0, 0, l, 0) : l \in BaseLists}
    \cup {Datagram(4660, 0, Len(l) - 1, 0, 0, 0, l, 0) : l \in BaseLists \ {<<>>}}

Datagrams ==
    WellFormedQueries \cup MalformedNameQueries \cup BadHeaderDatagrams
    \cup TruncatedDatagrams \cup MiscountedDatagrams

(***************************************************************************)
(* The responder.                                                          *)
(***************************************************************************)
VARIABLES
    server,         \* the service identity (immutable members of BonjourServer)
    waitingReader,  \* none, or the retained reader: its datagram and its offset
    requests,       \* RequestSendStream calls the exchange has not granted yet
    dryRun,         \* history: what the dry run of the reader retained last found
    call,           \* history: the handler call that ran last, until it returned
                    \* (its datagram: the one it parsed, none when it read none)
    network         \* whether the responder exists, and the calls it made on the
                    \* datagram factory (Listen) and on the multicast interface
                    \* (JoinMulticastGroup, LeaveMulticastGroup), in order

vars == <<server, waitingReader, requests, dryRun, call, network>>

\* the exchange Listen returned, as the multicast calls name it, with the group
GroupOnExchange == [exchange |-> 1, group |-> mdnsMulticastAddress]

\* the stream reader of a retained datagram
ReaderOf(r) == [data |-> Wire(r.datagram), pos |-> r.pos]

\* what a pass of the parser found: the verdict, the counts, the records added
\* in order, the bytes given to the writer
Summary(q) ==
    [present |-> q.present, answersCount |-> q.answersCount,
     additionalRecordsCount |-> q.additionalRecordsCount,
     log |-> q.log, processed |-> q.writer.processed]

\* a handler call: retained and released count the readers the call took into
\* waitingReader and the readers it released from it
CallRecord(op, from, datagram, result, pass, written, overflow, retained, released) ==
    [op |-> op, from |-> from, datagram |-> datagram, result |-> result,
     pass |-> pass, written |-> written, overflow |-> overflow,
     retained |-> retained, released |-> released]

Init ==
    /\ server \in Servers
    /\ waitingReader = none
    /\ requests = <<>>
    /\ dryRun = none
    /\ call = none
    /\ network = [alive |-> TRUE,
                  listening |-> <<[port |-> mdnsPort, versions |-> "ipv4"]>>,
                  joined |-> <<GroupOnExchange>>,
                  left |-> <<>>]

\* RequestSendStream asking for the records' bytes without the header's
RequestSendStreamWithoutHeader(question, from) ==
    [sendSize |-> question.writer.processed - SizeofDnsRecordHeader,
     to |-> [address |-> mdnsMulticastAddress, port |-> mdnsPort]]

\* RequestSendStream addressing the reply to the sender of the query
RequestSendStreamToSender(question, from) ==
    [sendSize |-> question.writer.processed, to |-> from]

\* QuestionParser::RequestSendStream
RequestSendStream(question, from) ==
    [sendSize |-> question.writer.processed,
     to |-> [address |-> mdnsMulticastAddress, port |-> mdnsPort]]

\* DataReceived without the check that no reader is waiting
DataReceivedNoBusyCheck(d, from) ==
    /\ network.alive
    /\ call = none
    /\ IF from.port # mdnsPort
       THEN /\ call' = CallRecord("DataReceived", from, none, "ignored", none, none, FALSE, 0, 0)
            /\ UNCHANGED <<server, network, waitingReader, requests, dryRun>>
       ELSE \E question \in {QuestionParserDryRun(server, ReaderOf([datagram |-> d, pos |-> 0]))} :
                IF HasAnswer(question)
                THEN /\ waitingReader' = [datagram |-> d, pos |-> question.pos]
                     /\ requests' = Append(requests, RequestSendStream(question, from))
                     /\ dryRun' = Summary(question)
                     /\ call' = CallRecord("DataReceived", from, d, "requested",
                                           Summary(question), none, FALSE, 1, 0)
                     /\ UNCHANGED <<server, network>>
                ELSE /\ waitingReader' = none
                     /\ call' = CallRecord("DataReceived", from, d, "no answer",
                                           Summary(question), none, FALSE, 1, 1)
                     /\ UNCHANGED <<server, network, requests, dryRun>>

\* DataReceived that keeps the reader when the dry run has no answer
DataReceivedKeepReader(d, from) ==
    /\ network.alive
    /\ call = none
    /\ IF from.port # mdnsPort
       THEN /\ call' = CallRecord("DataReceived", from, none, "ignored", none, none, FALSE, 0, 0)
            /\ UNCHANGED <<server, network, waitingReader, requests, dryRun>>
       ELSE IF waitingReader # none
       THEN /\ call' = CallRecord("DataReceived", from, none, "dropped", none, none, FALSE, 0, 0)
            /\ UNCHANGED <<server, network, waitingReader, requests, dryRun>>
       ELSE \E question \in {QuestionParserDryRun(server, ReaderOf([datagram |-> d, pos |-> 0]))} :
                /\ waitingReader' = [datagram |-> d, pos |-> question.pos]
                /\ IF HasAnswer(question)
                   THEN /\ requests' = Append(requests, RequestSendStream(question, from))
                        /\ dryRun' = Summary(question)
                        /\ call' = CallRecord("DataReceived", from, d, "requested",
                                              Summary(question), none, FALSE, 1, 0)
                   ELSE /\ call' = CallRecord("DataReceived", from, d, "no answer",
                                              Summary(question), none, FALSE, 1, 0)
                        /\ UNCHANGED <<requests, dryRun>>
                /\ UNCHANGED <<server, network>>

\* DataReceived that retains the reader of a query with an answer and asks for no stream
DataReceivedWithoutRequest(d, from) ==
    /\ network.alive
    /\ call = none
    /\ IF from.port # mdnsPort
       THEN /\ call' = CallRecord("DataReceived", from, none, "ignored", none, none, FALSE, 0, 0)
            /\ UNCHANGED <<server, network, waitingReader, requests, dryRun>>
       ELSE IF waitingReader # none
       THEN /\ call' = CallRecord("DataReceived", from, none, "dropped", none, none, FALSE, 0, 0)
            /\ UNCHANGED <<server, network, waitingReader, requests, dryRun>>
       ELSE \E question \in {QuestionParserDryRun(server, ReaderOf([datagram |-> d, pos |-> 0]))} :
                IF HasAnswer(question)
                THEN /\ waitingReader' = [datagram |-> d, pos |-> question.pos]
                     /\ dryRun' = Summary(question)
                     /\ call' = CallRecord("DataReceived", from, d, "requested",
                                           Summary(question), none, FALSE, 1, 0)
                     /\ UNCHANGED <<server, network, requests>>
                ELSE /\ waitingReader' = none
                     /\ call' = CallRecord("DataReceived", from, d, "no answer",
                                           Summary(question), none, FALSE, 1, 1)
                     /\ UNCHANGED <<server, network, requests, dryRun>>

\* DataReceived that gives up the pending reader when another datagram arrives
DataReceivedGivesUpPending(d, from) ==
    /\ network.alive
    /\ call = none
    /\ IF from.port # mdnsPort
       THEN /\ call' = CallRecord("DataReceived", from, none, "ignored", none, none, FALSE, 0, 0)
            /\ UNCHANGED <<server, network, waitingReader, requests, dryRun>>
       ELSE IF waitingReader # none
       THEN /\ call' = CallRecord("DataReceived", from, none, "dropped", none, none, FALSE, 0, 1)
            /\ waitingReader' = none
            /\ requests' = <<>>
            /\ UNCHANGED <<server, network, dryRun>>
       ELSE \E question \in {QuestionParserDryRun(server, ReaderOf([datagram |-> d, pos |-> 0]))} :
                IF HasAnswer(question)
                THEN /\ waitingReader' = [datagram |-> d, pos |-> question.pos]
                     /\ requests' = Append(requests, RequestSendStream(question, from))
                     /\ dryRun' = Summary(question)
                     /\ call' = CallRecord("DataReceived", from, d, "requested",
                                           Summary(question), none, FALSE, 1, 0)
                     /\ UNCHANGED <<server, network>>
                ELSE /\ waitingReader' = none
                     /\ call' = CallRecord("DataReceived", from, d, "no answer",
                                           Summary(question), none, FALSE, 1, 1)
                     /\ UNCHANGED <<server, network, requests, dryRun>>

\* DataReceived that asks for a send stream whatever the dry run found
DataReceivedAlwaysRequests(d, from) ==
    /\ network.alive
    /\ call = none
    /\ IF from.port # mdnsPort
       THEN /\ call' = CallRecord("DataReceived", from, none, "ignored", none, none, FALSE, 0, 0)
            /\ UNCHANGED <<server, network, waitingReader, requests, dryRun>>
       ELSE IF waitingReader # none
       THEN /\ call' = CallRecord("DataReceived", from, none, "dropped", none, none, FALSE, 0, 0)
            /\ UNCHANGED <<server, network, waitingReader, requests, dryRun>>
       ELSE \E question \in {QuestionParserDryRun(server, ReaderOf([datagram |-> d, pos |-> 0]))} :
                /\ waitingReader' = [datagram |-> d, pos |-> question.pos]
                /\ requests' = Append(requests, RequestSendStream(question, from))
                /\ dryRun' = Summary(question)
                /\ call' = CallRecord("DataReceived", from, d, "requested",
                                      Summary(question), none, FALSE, 1, 0)
                /\ UNCHANGED <<server, network>>

\* DataReceived that asks for the send stream and does not retain the reader
DataReceivedRequestWithoutReader(d, from) ==
    /\ network.alive
    /\ call = none
    /\ IF from.port # mdnsPort
       THEN /\ call' = CallRecord("DataReceived", from, none, "ignored", none, none, FALSE, 0, 0)
            /\ UNCHANGED <<server, network, waitingReader, requests, dryRun>>
       ELSE IF waitingReader # none
       THEN /\ call' = CallRecord("DataReceived", from, none, "dropped", none, none, FALSE, 0, 0)
            /\ UNCHANGED <<server, network, waitingReader, requests, dryRun>>
       ELSE \E question \in {QuestionParserDryRun(server, ReaderOf([datagram |-> d, pos |-> 0]))} :
                IF HasAnswer(question)
                THEN /\ waitingReader' = none
                     /\ requests' = Append(requests, RequestSendStream(question, from))
                     /\ dryRun' = Summary(question)
                     /\ call' = CallRecord("DataReceived", from, d, "requested",
                                           Summary(question), none, FALSE, 1, 1)
                     /\ UNCHANGED <<server, network>>
                ELSE /\ waitingReader' = none
                     /\ call' = CallRecord("DataReceived", from, d, "no answer",
                                           Summary(question), none, FALSE, 1, 1)
                     /\ UNCHANGED <<server, network, requests, dryRun>>

\* DataReceived without the check of the sender's port
DataReceivedNoPortCheck(d, from) ==
    /\ network.alive
    /\ call = none
    /\ IF waitingReader # none
       THEN /\ call' = CallRecord("DataReceived", from, none, "dropped", none, none, FALSE, 0, 0)
            /\ UNCHANGED <<server, network, waitingReader, requests, dryRun>>
       ELSE \E question \in {QuestionParserDryRun(server, ReaderOf([datagram |-> d, pos |-> 0]))} :
                IF HasAnswer(question)
                THEN /\ waitingReader' = [datagram |-> d, pos |-> question.pos]
                     /\ requests' = Append(requests, RequestSendStream(question, from))
                     /\ dryRun' = Summary(question)
                     /\ call' = CallRecord("DataReceived", from, d, "requested",
                                           Summary(question), none, FALSE, 1, 0)
                     /\ UNCHANGED <<server, network>>
                ELSE /\ waitingReader' = none
                     /\ call' = CallRecord("DataReceived", from, d, "no answer",
                                           Summary(question), none, FALSE, 1, 1)
                     /\ UNCHANGED <<server, network, requests, dryRun>>

\* BonjourServer::DataReceived(reader, from), the reader at offset 0 of datagram d
DataReceived(d, from) ==
    /\ network.alive
    /\ call = none
    /\ IF from.port # mdnsPort
       THEN /\ call' = CallRecord("DataReceived", from, none, "ignored", none, none, FALSE, 0, 0)
            /\ UNCHANGED <<server, network, waitingReader, requests, dryRun>>
       ELSE IF waitingReader # none
       THEN /\ call' = CallRecord("DataReceived", from, none, "dropped", none, none, FALSE, 0, 0)
            /\ UNCHANGED <<server, network, waitingReader, requests, dryRun>>
       ELSE \E question \in {QuestionParserDryRun(server, ReaderOf([datagram |-> d, pos |-> 0]))} :
                IF HasAnswer(question)
                THEN /\ waitingReader' = [datagram |-> d, pos |-> question.pos]
                     /\ requests' = Append(requests, RequestSendStream(question, from))
                     /\ dryRun' = Summary(question)
                     /\ call' = CallRecord("DataReceived", from, d, "requested",
                                           Summary(question), none, FALSE, 1, 0)
                     /\ UNCHANGED <<server, network>>
                ELSE /\ waitingReader' = none
                     /\ call' = CallRecord("DataReceived", from, d, "no answer",
                                           Summary(question), none, FALSE, 1, 1)
                     /\ UNCHANGED <<server, network, requests, dryRun>>

\* SendStreamAvailable that keeps the reader after the reply is written
SendStreamAvailableKeepReader ==
    /\ network.alive
    /\ call = none
    /\ requests # <<>>
    /\ IF waitingReader = none
       THEN /\ call' = CallRecord("SendStreamAvailable", Head(requests).to, none, "assert",
                                  none, none, FALSE, 0, 0)
            /\ requests' = Tail(requests)
            /\ UNCHANGED <<server, network, waitingReader, dryRun>>
       ELSE \E question \in {QuestionParserWrite(server, ReaderOf(waitingReader),
                                                      GrantedWriter(Head(requests).sendSize))} :
                /\ call' = CallRecord("SendStreamAvailable", Head(requests).to,
                                      waitingReader.datagram, "written", Summary(question),
                                      question.writer.data, question.writer.overflow, 0, 0)
                /\ requests' = Tail(requests)
                /\ UNCHANGED <<server, network, waitingReader, dryRun>>

\* BonjourServer::SendStreamAvailable(writer): the exchange grants the oldest
\* request with a writer of the requested size
SendStreamAvailable ==
    /\ network.alive
    /\ call = none
    /\ requests # <<>>
    /\ IF waitingReader = none
       THEN \* assert(waitingReader != nullptr) fails
            /\ call' = CallRecord("SendStreamAvailable", Head(requests).to, none, "assert",
                                  none, none, FALSE, 0, 0)
            /\ requests' = Tail(requests)
            /\ UNCHANGED <<server, network, waitingReader, dryRun>>
       ELSE \E question \in {QuestionParserWrite(server, ReaderOf(waitingReader),
                                                      GrantedWriter(Head(requests).sendSize))} :
                /\ call' = CallRecord("SendStreamAvailable", Head(requests).to,
                                      waitingReader.datagram, "written", Summary(question),
                                      question.writer.data, question.writer.overflow, 0, 1)
                /\ waitingReader' = none
                /\ requests' = Tail(requests)
                /\ UNCHANGED <<server, network, dryRun>>

\* the handler returns to the event dispatcher, which dispatches the next event
Return ==
    /\ call # none
    /\ call' = none
    /\ dryRun' = IF waitingReader = none THEN none ELSE dryRun
    /\ UNCHANGED <<server, network, waitingReader, requests>>

\* the destructor without its LeaveMulticastGroup call
DestroyWithoutLeave ==
    /\ network.alive
    /\ call = none
    /\ network' = [network EXCEPT !.alive = FALSE]
    /\ waitingReader' = none
    /\ requests' = <<>>
    /\ UNCHANGED <<server, dryRun, call>>

\* BonjourServer::~BonjourServer: the group left on the exchange, then the
\* members destroyed: a reader still retained is released with waitingReader,
\* and the responder's hold on the exchange ends with datagramExchange, so the
\* responder has no request outstanding any more; no handler runs after it
Destroy ==
    /\ network.alive
    /\ call = none
    /\ network' = [network EXCEPT !.alive = FALSE, !.left = Append(@, GroupOnExchange)]
    /\ waitingReader' = none
    /\ requests' = <<>>
    /\ UNCHANGED <<server, dryRun, call>>

Next ==
    \/ \E d \in Datagrams, from \in Senders : DataReceived(d, from)
    \/ SendStreamAvailable
    \/ Return
    \/ Destroy

Spec == Init /\ [][Next]_vars

\* the steps of a responder that is not destroyed
LivingNext ==
    \/ \E d \in Datagrams, from \in Senders : DataReceived(d, from)
    \/ SendStreamAvailable
    \/ Return

\* the responder while it lives, with handlers that return and under a
\* transport that grants every send stream it was asked for: again and again no
\* request is outstanding
FairSpec == Init /\ [][LivingNext]_vars /\ WF_vars(Return) /\ []<>(requests = <<>>)

(***************************************************************************)
(* Properties.                                                             *)
(***************************************************************************)
\* the last call was a DataReceived that parsed its datagram
Parsed == call # none /\ call.op = "DataReceived" /\ call.datagram # none

\* the last call was a SendStreamAvailable that ran the real pass
Written == call # none /\ call.op = "SendStreamAvailable" /\ call.result = "written"

\* no reader retained, no buffer request outstanding
Idle == waitingReader = none /\ requests = <<>>

\* the header of a datagram, as delivered, is no query: it is not all there, or
\* its opcode is not QUERY, or its response bit is set, or one of its answers,
\* name-servers and additional-records counts is not zero
HeaderRejectable(d) ==
    \/ Len(Wire(d)) < SizeofDnsRecordHeader
    \/ (d.flags \div 2048) % 16 # 0
    \/ d.flags >= 32768
    \/ d.answersCount # 0
    \/ d.nameServersCount # 0
    \/ d.additionalRecordsCount # 0

\* the questions of a datagram that its header declares and that it carries
DeclaredQuestions(d) == 1..Min(d.questionsCount, Len(d.questions))

\* the offset of question i in a datagram
QuestionOffset(d, i) ==
    SizeofDnsRecordHeader + Len(QuestionsWire(SubSeq(d.questions, 1, i - 1)))

\* the name of question i of a datagram is malformed: the decoder fails on it
MalformedName(d, i) == DnsHostnamePartsStream(Wire(d), QuestionOffset(d, i)).failed

\* question x of a query would be answered by a responder that matches label sequences
PatternOfType(srv, type) ==
    CASE type \in {dnsTypeA, dnsTypeAAAA} -> <<srv.instance, local>>
      [] type \in {dnsTypeSrv, dnsTypeTxt} -> <<srv.instance, srv.serviceName, srv.type, local>>
      [] type = dnsTypePtr -> <<srv.serviceName, srv.type, local>>
      [] OTHER -> <<>>

\* C1: while a reader is retained every DataReceived call leaves the reader and
\* the outstanding requests as they are (the call is ignored or dropped), at most
\* one request is outstanding, and the reply SendStreamAvailable writes is the
\* reply to the retained datagram: its query id, and the records its dry run found.
C1_SingleInFlight ==
    [][/\ (waitingReader # none /\ call' # none /\ call'.op = "DataReceived")
            => /\ waitingReader' = waitingReader
               /\ requests' = requests
               /\ call'.result \in {"ignored", "dropped"}
       /\ Len(requests') <= 1
       /\ (call' # none /\ call'.op = "SendStreamAvailable")
            => /\ call'.result = "written"
               /\ call'.datagram = waitingReader.datagram
               /\ U16At(call'.written, 1) = waitingReader.datagram.id
               /\ call'.pass.log = dryRun.log]_vars

\* C1 witness: a datagram was dropped while a reader was retained
C1_Witness ==
    call # none /\ call.result = "dropped" /\ waitingReader # none /\ Len(requests) = 1

\* the verdict, the counts and the records of two passes agree
PassEquivalent(dry, real) ==
    /\ dry.present = real.present
    /\ dry.answersCount = real.answersCount
    /\ dry.additionalRecordsCount = real.additionalRecordsCount
    /\ dry.log = real.log

\* C2: the real pass over the retained reader reaches the verdict, the answer
\* count, the additional-record count and the record sequence of the dry run;
\* so would the real pass of a datagram the dry run dropped, run on the reader
\* as the dry run left it.
C2_PassEquivalence ==
    /\ Written => PassEquivalent(dryRun, call.pass)
    /\ Parsed =>
         PassEquivalent(call.pass,
                        Summary(QuestionParserWrite(server,
                                                    ReaderOf([datagram |-> call.datagram, pos |-> 0]),
                                                    GrantedWriter(call.pass.processed))))

\* C2 witness: a real pass that wrote answers and additional records
C2_Witness ==
    Written /\ call.pass.answersCount >= 2 /\ call.pass.additionalRecordsCount >= 2

RECURSIVE WalkRecords(_, _, _)
\* the offset behind n records at offset p of a reply: name, fixed part, resource data
WalkRecords(bytes, p, n) ==
    IF n = 0 THEN p
    ELSE IF p >= Len(bytes) THEN Len(bytes) + 1
    ELSE LET e == DnsHostnamePartsStream(bytes, p).pos
         IN  IF e + 10 > Len(bytes) THEN Len(bytes) + 1
             ELSE WalkRecords(bytes, e + 10 + bytes[e + 9] * 256 + bytes[e + 10], n - 1)

\* C3: the size requested equals the number of bytes the real pass writes: the
\* writer of that size takes every insert, and the bytes are the 12 header bytes
\* and the records counted in the header, no more.
C3_RequestedSizeExact ==
    Written =>
        /\ ~call.overflow
        /\ Len(call.written) = dryRun.processed
        /\ call.pass.processed = dryRun.processed
        /\ WalkRecords(call.written, SizeofDnsRecordHeader,
                       call.pass.answersCount + call.pass.additionalRecordsCount)
             = Len(call.written)

\* C3 witness: a reply of a header and several records
C3_Witness ==
    Written /\ Len(call.written) > SizeofDnsRecordHeader /\ Len(call.pass.log) >= 3

\* C4: a datagram whose header is no query gets no buffer request and leaves the
\* responder idle, whatever its questions.
C4_BadHeaderDropped ==
    (Parsed /\ HeaderRejectable(call.datagram)) =>
        /\ call.result = "no answer"
        /\ ~call.pass.present
        /\ Idle

\* C4 witness: a datagram with the response bit set and a question naming the service
C4_Witness ==
    /\ Parsed /\ Idle
    /\ call.datagram.flags >= 32768
    /\ call.datagram.cut = 0
    /\ call.datagram.questions = <<Question("service", dnsTypePtr, dnsClassIn)>>

\* a question whose type is none of the five or whose class is not Internet
UnsupportedQuestion(x) == x.type \notin SupportedTypes \/ x.class # dnsClassIn

\* C5: a query one of whose declared questions has an unsupported type or class
\* is rejected: no answer kept, no buffer request, the responder idle.
C5_UnsupportedQuestionRejects ==
    (Parsed /\ \E i \in DeclaredQuestions(call.datagram) :
                   UnsupportedQuestion(call.datagram.questions[i])) =>
        /\ call.result = "no answer"
        /\ ~call.pass.present
        /\ Idle

\* C5 witness: the first question matched and was answered, the second has an
\* unsupported type and a name that is none of the responder's
C5_Witness ==
    /\ Parsed /\ Idle
    /\ ~HeaderRejectable(call.datagram)
    /\ Len(call.datagram.questions) = 2
    /\ call.datagram.questions[2] = Question("other", 2, dnsClassIn)
    /\ call.pass.answersCount = 1

\* C6: a datagram with a structural failure (it ends before its declared
\* questions do, within a name or a footer or with questions missing, or a
\* declared question has a name that is malformed: a pointer to a pointer, a
\* pointer behind the end, a label longer than 63 bytes) has no answer,
\* whatever was found before the failure: none is kept, nothing is requested,
\* the reader is released. The parser does not do this for a malformed name
\* that the data does not end in: ReadHostname does not learn of the decoder's
\* failure, the name is taken as the labels decoded so far and the questions
\* before and behind it are answered.
C6_StructuralFailureRejects ==
    (Parsed /\ (\/ call.datagram.cut > 0
                \/ call.datagram.questionsCount > Len(call.datagram.questions)
                \/ \E i \in DeclaredQuestions(call.datagram) :
                       MalformedName(call.datagram, i))) =>
        /\ call.result = "no answer"
        /\ ~call.pass.present
        /\ call.released = 1
        /\ Idle

\* C7: a dry run without an answer (none kept, or a count of zero) ends with the
\* reader released and no request made.
C7_NoAnswerDropped ==
    (Parsed /\ ~(call.pass.present /\ call.pass.answersCount # 0)) =>
        /\ call.result = "no answer"
        /\ Idle

\* C7 witness: a valid query that names nothing of this responder
C7_Witness ==
    /\ Parsed /\ Idle
    /\ call.pass.present
    /\ call.pass.answersCount = 0
    /\ call.datagram.questions # <<>>

\* the number of readers in waitingReader
Held(r) == IF r = none THEN 0 ELSE 1

\* C8, as claimed: a reader is held only while a buffer request is
\* outstanding; every call leaves held what it found, plus what it retained,
\* minus what it released; a held reader is released only by a handler, never
\* replaced, and SendStreamAvailable always finds a reader to release.
C8_ReleasedExactlyOnce ==
    /\ [](waitingReader # none => Len(requests) = 1)
    /\ [](call # none => call.result # "assert")
    /\ [][/\ call' # none =>
               /\ Held(waitingReader') = Held(waitingReader) + call'.retained - call'.released
               /\ call'.released <= Held(waitingReader) + call'.retained
          /\ (waitingReader # none /\ waitingReader' # waitingReader)
               => (/\ waitingReader' = none
                   /\ call' # none
                   /\ call'.op = "SendStreamAvailable")]_vars

\* the responder is destroyed in this step
DestroyStep == network.alive /\ ~network'.alive /\ call' = none

\* C8, amended: as claimed, but a held reader is released by
\* SendStreamAvailable or, when the responder is destroyed while it holds one,
\* by the destructor; while the responder exists a reader is held exactly
\* while a request is outstanding, and a destroyed responder holds none.
C8_ReleasedOnceOrWithResponder ==
    /\ [](waitingReader # none => Len(requests) = 1)
    /\ [](network.alive => Held(waitingReader) = Len(requests))
    /\ [](~network.alive => waitingReader = none)
    /\ [](call # none => call.result # "assert")
    /\ [][/\ call' # none =>
               /\ Held(waitingReader') = Held(waitingReader) + call'.retained - call'.released
               /\ call'.released <= Held(waitingReader) + call'.retained
          /\ (waitingReader # none /\ waitingReader' # waitingReader)
               => (/\ waitingReader' = none
                   /\ \/ call' # none /\ call'.op = "SendStreamAvailable"
                      \/ DestroyStep)]_vars

\* C8 witness: a responder destroyed while it held a reader (the one whose dry
\* run is on record): the reader is released
C8_Witness ==
    /\ ~network.alive
    /\ Held(waitingReader) = 0
    /\ dryRun # none

\* C9: a question is answered only under the pattern of its type: when the dry
\* run of a one-question query adds a record, the question's labels are the
\* pattern that belongs to its type.
C9_AnsweredOnlyUnderOwnPattern ==
    (Parsed /\ Len(call.datagram.questions) = 1 /\ call.pass.log # <<>>) =>
        /\ call.datagram.questions[1].type \in SupportedTypes
        /\ NameLabels(call.datagram.questions[1].name)
             = PatternOfType(server, call.datagram.questions[1].type)

\* the three patterns the responder answers for
Patterns(srv) ==
    {<<srv.instance, local>>,
     <<srv.instance, srv.serviceName, srv.type, local>>,
     <<srv.serviceName, srv.type, local>>}

\* C10: the matcher succeeds exactly when the labels of the question name are
\* the labels of the pattern.
C10_MatcherExact ==
    (Parsed /\ Len(call.datagram.questions) = 1 /\ call.datagram.cut = 0) =>
        \A pattern \in Patterns(server) :
            HostNameIs(ReadHostname(NewParser(SizeofDnsRecordHeader),
                                    Wire(call.datagram)).reconstructedHostname, pattern)
              <=> NameLabels(call.datagram.questions[1].name) = pattern

(***************************************************************************)
(* Reading a reply and a query back: the header fields and the records of  *)
(* the bytes the real pass wrote, the names of the questions as the parser *)
(* reads them.                                                             *)
(***************************************************************************)
\* the header fields of a reply
ReplyHeader(bytes) ==
    [id |-> U16At(bytes, 1), flags |-> U16At(bytes, 2), questionsCount |-> U16At(bytes, 3),
     answersCount |-> U16At(bytes, 4), nameServersCount |-> U16At(bytes, 5),
     additionalRecordsCount |-> U16At(bytes, 6)]

\* the record whose name starts at offset p and ends at offset e
RecordAt(bytes, p, e, labels) ==
    [name |-> labels,
     nameBytes |-> SubSeq(bytes, p + 1, e),
     type |-> bytes[e + 1] * 256 + bytes[e + 2],
     class |-> bytes[e + 3] * 256 + bytes[e + 4],
     ttl |-> ((bytes[e + 5] * 256 + bytes[e + 6]) * 256 + bytes[e + 7]) * 256 + bytes[e + 8],
     rdlength |-> bytes[e + 9] * 256 + bytes[e + 10],
     rdata |-> SubSeq(bytes, e + 11, Min(Len(bytes), e + 10 + bytes[e + 9] * 256 + bytes[e + 10]))]

RECURSIVE ParseRecords(_, _, _)
\* up to n records from offset p of a reply, each found behind the resource
\* data of the one before
ParseRecords(bytes, p, n) ==
    IF n = 0 \/ p >= Len(bytes) THEN <<>>
    ELSE LET nm == DnsHostnamePartsStream(bytes, p)
         IN  IF nm.pos + 10 > Len(bytes) THEN <<>>
             ELSE <<RecordAt(bytes, p, nm.pos, nm.labels)>>
                  \o ParseRecords(bytes, nm.pos + 10 + bytes[nm.pos + 9] * 256 + bytes[nm.pos + 10],
                                  n - 1)

\* the records of a reply: as many as its header counts
ReplyRecords(bytes) ==
    ParseRecords(bytes, SizeofDnsRecordHeader,
                 U16At(bytes, 4) + U16At(bytes, 5) + U16At(bytes, 6))

\* the labels of the name of question i, compression pointers followed
QuestionLabels(d, i) == DnsHostnamePartsStream(Wire(d), QuestionOffset(d, i)).labels

\* the parser finds the footer of question i where the datagram has it: the
\* decoder leaves the reader at the end of the name (it does not behind a label
\* of more than 63 bytes, which it stops at)
FooterInPlace(d, i) ==
    DnsHostnamePartsStream(Wire(d), QuestionOffset(d, i)).pos
        = QuestionOffset(d, i + 1) - SizeofDnsQuestionFooter

\* a query as a querier sends it: a header that is a query, every declared
\* question present and whole, each of a supported type and of class Internet
\* and read as such by the parser
AnswerableQuery(d) ==
    /\ ~HeaderRejectable(d)
    /\ d.cut = 0
    /\ d.questionsCount = Len(d.questions)
    /\ \A i \in 1..Len(d.questions) : ~UnsupportedQuestion(d.questions[i])
    /\ \A i \in 1..Len(d.questions) : FooterInPlace(d, i)

\* the record a question of a type asks for is available
Available(srv, type) ==
    CASE type = dnsTypeA -> srv.ipv4Address # none
      [] type = dnsTypeAAAA -> srv.ipv6Address # none
      [] OTHER -> TRUE

\* the address configured for an address type
AddressOf(srv, type) == IF type = dnsTypeA THEN srv.ipv4Address ELSE srv.ipv6Address

\* the last call handled a query of the one question x
SingleQuestionCall(x) ==
    /\ call # none
    /\ call.datagram # none
    /\ AnswerableQuery(call.datagram)
    /\ call.datagram.questions = <<x>>

\* C11: a query of one A (AAAA) question naming the short instance name: with
\* the IPv4 (IPv6) address configured a send buffer is requested and the reply
\* has ancount 1, arcount 0 and one record, of that type, carrying the
\* configured address; with no such address configured there are zero answers,
\* no request and no reply.
C11_AddressAnswer ==
    \A type \in {dnsTypeA, dnsTypeAAAA} :
        SingleQuestionCall(Question("short", type, dnsClassIn)) =>
            /\ (Parsed /\ Available(server, type)) =>
                   /\ call.result = "requested"
                   /\ call.pass.answersCount = 1
                   /\ call.pass.additionalRecordsCount = 0
            /\ (Parsed /\ ~Available(server, type)) =>
                   /\ call.result = "no answer"
                   /\ call.pass.answersCount = 0
                   /\ call.pass.log = <<>>
                   /\ Idle
            /\ Written =>
                   /\ Available(server, type)
                   /\ ReplyHeader(call.written).answersCount = 1
                   /\ ReplyHeader(call.written).additionalRecordsCount = 0
                   /\ Len(ReplyRecords(call.written)) = 1
                   /\ ReplyRecords(call.written)[1].type = type
                   /\ ReplyRecords(call.written)[1].class = dnsClassIn
                   /\ ReplyRecords(call.written)[1].rdata = AddressOf(server, type)

\* C11 witness: the reply to an A question for the short name was written
C11_Witness ==
    /\ SingleQuestionCall(Question("short", dnsTypeA, dnsClassIn))
    /\ Written
    /\ ReplyRecords(call.written)[1].rdata = <<192, 168, 1, 2>>

\* the number of A, AAAA, SRV and TXT records available: SRV and TXT always,
\* A and AAAA when the address is configured
AvailableAdditional(srv) ==
    2 + (IF srv.ipv4Address # none THEN 1 ELSE 0) + (IF srv.ipv6Address # none THEN 1 ELSE 0)

\* the types of the records of a reply, in order
RecordTypes(records) == [k \in 1..Len(records) |-> records[k].type]

\* a query of one PTR question with the given name is answered with one PTR
\* answer and every available A, AAAA, SRV and TXT record as additional
PtrAnswered(name) ==
    SingleQuestionCall(Question(name, dnsTypePtr, dnsClassIn)) =>
        /\ Parsed =>
               /\ call.result = "requested"
               /\ call.pass.answersCount = 1
               /\ call.pass.additionalRecordsCount = AvailableAdditional(server)
        /\ Written =>
               /\ ReplyHeader(call.written).answersCount = 1
               /\ ReplyHeader(call.written).additionalRecordsCount = AvailableAdditional(server)
               /\ ReplyHeader(call.written).additionalRecordsCount \in {2, 3, 4}
               /\ Len(ReplyRecords(call.written)) = 1 + AvailableAdditional(server)
               /\ ReplyRecords(call.written)[1].type = dnsTypePtr
               /\ {RecordTypes(ReplyRecords(call.written))[k] :
                       k \in 2..Len(ReplyRecords(call.written))}
                    = {t \in {dnsTypeA, dnsTypeAAAA, dnsTypeSrv, dnsTypeTxt} : Available(server, t)}

\* C12 as stated: a query of one PTR question naming the full service instance
\* {instance, serviceName, type, local} has ancount 1 and arcount the number
\* of available A, AAAA, SRV and TXT records.
C12_PtrFullInstanceAnswered == PtrAnswered("full")

\* C12 amended: a query of one PTR question naming the service name
\* {serviceName, type, local} has ancount 1 (the PTR record) and arcount the
\* number of available A, AAAA, SRV and TXT records, 2, 3 or 4; a PTR question
\* naming the full instance gets no answer and no reply.
C12_PtrServiceNameAnswered ==
    /\ PtrAnswered("service")
    /\ (SingleQuestionCall(Question("full", dnsTypePtr, dnsClassIn)) /\ Parsed) =>
           /\ call.result = "no answer"
           /\ call.pass.log = <<>>
           /\ Idle

\* C12 witness: the reply to a PTR question for the service name, both
\* addresses configured, was written
C12_Witness ==
    /\ SingleQuestionCall(Question("service", dnsTypePtr, dnsClassIn))
    /\ Written
    /\ ReplyHeader(call.written).additionalRecordsCount = 4

\* the parser takes question i of a datagram as a question for this responder:
\* its name, as the parser reconstructs it, passes the matcher for the pattern
\* of its type
Matched(srv, d, i) ==
    /\ d.questions[i].type \in SupportedTypes
    /\ HostNameIs(JoinLabels(QuestionLabels(d, i)), PatternOfType(srv, d.questions[i].type))

\* the address records available, A before AAAA
AddressTypes(srv) ==
    (IF srv.ipv4Address # none THEN <<dnsTypeA>> ELSE <<>>)
    \o (IF srv.ipv6Address # none THEN <<dnsTypeAAAA>> ELSE <<>>)

\* the types of the additional records a matched question of a type calls for
AdditionalOf(srv, type) ==
    CASE type = dnsTypePtr -> <<dnsTypeTxt, dnsTypeSrv>> \o AddressTypes(srv)
      [] type = dnsTypeSrv -> AddressTypes(srv)
      [] OTHER -> <<>>

RECURSIVE ExpectedAdditional(_, _, _)
\* the additional records called for by the questions of a datagram from question i on
ExpectedAdditional(srv, d, i) ==
    IF i > Len(d.questions) THEN <<>>
    ELSE (IF Matched(srv, d, i) THEN AdditionalOf(srv, d.questions[i].type) ELSE <<>>)
         \o ExpectedAdditional(srv, d, i + 1)

IsAnswerEntry(e) == e.section = "answer"

IsAdditionalEntry(e) == e.section = "additional"

\* the types of the entries of a log
LogTypes(log) == [k \in 1..Len(log) |-> log[k].type]

\* C13: the additional records of a pass are, question by question in the
\* order of the questions, TXT, SRV, A, AAAA for a question matched as PTR and
\* A, AAAA for a question matched as SRV, A only with an IPv4 address and AAAA
\* only with an IPv6 address configured, and nothing for matched questions of
\* type A, AAAA or TXT; they follow the answers, in the pass and in the reply.
C13_AdditionalPerQuestion ==
    (call # none /\ call.datagram # none /\ AnswerableQuery(call.datagram)) =>
        /\ LogTypes(SelectSeq(call.pass.log, IsAdditionalEntry))
             = ExpectedAdditional(server, call.datagram, 1)
        /\ call.pass.log = SelectSeq(call.pass.log, IsAnswerEntry)
                           \o SelectSeq(call.pass.log, IsAdditionalEntry)
        /\ call.pass.additionalRecordsCount = Len(ExpectedAdditional(server, call.datagram, 1))
        /\ Written =>
               SubSeq(RecordTypes(ReplyRecords(call.written)),
                      call.pass.answersCount + 1, Len(ReplyRecords(call.written)))
                 = ExpectedAdditional(server, call.datagram, 1)

\* C13 witness: the reply to a PTR and an SRV question, the IPv4 address alone
\* configured: TXT, SRV, A for the first and A for the second
C13_Witness ==
    /\ Written
    /\ call.datagram.questions = <<Question("service", dnsTypePtr, dnsClassIn),
                                   Question("full", dnsTypeSrv, dnsClassIn)>>
    /\ AnswerableQuery(call.datagram)
    /\ server.ipv4Address # none /\ server.ipv6Address = none
    /\ SubSeq(RecordTypes(ReplyRecords(call.written)), 3, 6)
         = <<dnsTypeTxt, dnsTypeSrv, dnsTypeA, dnsTypeA>>

\* the number of additional records a matched question of a type contributes
AdditionalContribution(srv, type) ==
    CASE type = dnsTypePtr -> AvailableAdditional(srv)
      [] type = dnsTypeSrv -> AvailableAdditional(srv) - 2
      [] OTHER -> 0

RECURSIVE SumOfContributions(_, _, _)
\* the sum of the additional contributions of the matched questions from question i on
SumOfContributions(srv, d, i) ==
    IF i > Len(d.questions) THEN 0
    ELSE (IF Matched(srv, d, i) THEN AdditionalContribution(srv, d.questions[i].type) ELSE 0)
         + SumOfContributions(srv, d, i + 1)

\* the number of questions the parser matched and whose record is available
AnsweredQuestions(srv, d) ==
    Cardinality({i \in 1..Len(d.questions) :
                     Matched(srv, d, i) /\ Available(srv, d.questions[i].type)})

\* the PTR question for the service name followed by the SRV question for the instance
PtrThenSrv ==
    <<Question("service", dnsTypePtr, dnsClassIn), Question("full", dnsTypeSrv, dnsClassIn)>>

\* C14: the reply's arcount is the sum of the additional contributions of the
\* matched questions and its ancount the number of answered questions, with
\* nothing left out for being in the reply already: the body has ancount +
\* arcount records, and PTR + SRV with both addresses give ancount 2, arcount 6.
C14_CountsNotDeduplicated ==
    (Written /\ AnswerableQuery(call.datagram)) =>
        /\ ReplyHeader(call.written).additionalRecordsCount
             = SumOfContributions(server, call.datagram, 1)
        /\ ReplyHeader(call.written).answersCount = AnsweredQuestions(server, call.datagram)
        /\ Len(ReplyRecords(call.written))
             = AnsweredQuestions(server, call.datagram)
               + SumOfContributions(server, call.datagram, 1)
        /\ (call.datagram.questions = PtrThenSrv
            /\ server.ipv4Address # none /\ server.ipv6Address # none) =>
               /\ ReplyHeader(call.written).answersCount = 2
               /\ ReplyHeader(call.written).additionalRecordsCount = 6

\* C14 witness: the reply to PTR + SRV with both addresses configured, which
\* has the SRV record twice and the A record twice
C14_Witness ==
    /\ Written /\ AnswerableQuery(call.datagram)
    /\ call.datagram.questions = PtrThenSrv
    /\ server.ipv4Address # none /\ server.ipv6Address # none
    /\ RecordTypes(ReplyRecords(call.written))
         = <<dnsTypePtr, dnsTypeSrv, dnsTypeTxt, dnsTypeSrv, dnsTypeA, dnsTypeAAAA,
             dnsTypeA, dnsTypeAAAA>>

\* question i of a datagram names something that is none of this responder's names
NamesOther(srv, d, i) == QuestionLabels(d, i) \notin Patterns(srv)

\* question i matches: its labels are the pattern of its type
MatchesOwnPattern(srv, d, i) ==
    /\ d.questions[i].type \in SupportedTypes
    /\ QuestionLabels(d, i) = PatternOfType(srv, d.questions[i].type)

\* a datagram without its question i
Without(d, i) ==
    [d EXCEPT !.questions = SubSeq(d.questions, 1, i - 1)
                            \o SubSeq(d.questions, i + 1, Len(d.questions)),
              !.questionsCount = @ - 1]

\* taking question i away leaves the names of the other questions as they are:
\* none of them is a pointer to the name taken away
KeepsNames(d, i) ==
    \A k \in 1..Len(d.questions) : (k # i /\ d.questions[k].name = "pointer") => i # 1

\* C15: a well-formed question that names a service other than this one
\* contributes no record and does not invalidate the query: the pass finds what
\* it finds for the query without that question, and ancount is the number of
\* questions that match and whose record is available.
C15_OtherServiceIgnored ==
    (Parsed /\ AnswerableQuery(call.datagram)) =>
        \A i \in 1..Len(call.datagram.questions) :
            (NamesOther(server, call.datagram, i) /\ KeepsNames(call.datagram, i)) =>
                /\ call.pass.present
                /\ call.pass
                     = Summary(QuestionParserDryRun(server,
                                                    [data |-> Wire(Without(call.datagram, i)),
                                                     pos |-> 0]))
                /\ call.pass.answersCount
                     = Cardinality({k \in 1..Len(call.datagram.questions) :
                                        /\ MatchesOwnPattern(server, call.datagram, k)
                                        /\ Available(server, call.datagram.questions[k].type)})

\* C16: a valid query all of whose questions name something that is none of
\* the three patterns yields zero answers: no send buffer is requested, no
\* reply is sent, the responder stays idle.
C16_UnrelatedNamesNoReply ==
    (Parsed /\ AnswerableQuery(call.datagram)
     /\ \A i \in 1..Len(call.datagram.questions) : NamesOther(server, call.datagram, i)) =>
        /\ call.pass.answersCount = 0
        /\ call.pass.log = <<>>
        /\ call.result = "no answer"
        /\ Idle

\* the number of entries of a section in a log
CountOf(log, section) == Cardinality({k \in 1..Len(log) : log[k].section = section})

\* C17: the header of every reply carries the id of the query answered, the
\* response flag, an answers count that is the number of answer records
\* written, an additional-records count that is the number of additional
\* records written and a name-servers count of 0; the body is ancount +
\* arcount records, the answers first, and nothing else.
C17_HeaderAfterFinish ==
    Written =>
        /\ ReplyHeader(call.written).id = call.datagram.id
        /\ ReplyHeader(call.written).flags = flagsResponse
        /\ ReplyHeader(call.written).answersCount = CountOf(call.pass.log, "answer")
        /\ ReplyHeader(call.written).additionalRecordsCount = CountOf(call.pass.log, "additional")
        /\ ReplyHeader(call.written).nameServersCount = 0
        /\ Len(ReplyRecords(call.written))
             = ReplyHeader(call.written).answersCount
               + ReplyHeader(call.written).additionalRecordsCount
        /\ RecordTypes(ReplyRecords(call.written)) = LogTypes(call.pass.log)
        /\ WalkRecords(call.written, SizeofDnsRecordHeader, Len(call.pass.log))
             = Len(call.written)
        /\ Len(ParseRecords(call.written, SizeofDnsRecordHeader, Len(call.pass.log) + 1))
             = Len(call.pass.log)

\* C17 witness: a reply to a query with id 65535 with answers and additional records
C17_Witness ==
    /\ Written
    /\ call.datagram.id = 65535
    /\ ReplyHeader(call.written).id = 65535
    /\ ReplyHeader(call.written).answersCount = 2
    /\ ReplyHeader(call.written).additionalRecordsCount >= 2

RECURSIVE AnswerTriggers(_, _, _)
\* for each answer record of a pass, the number of the question that triggered it
AnswerTriggers(srv, d, i) ==
    IF i > Len(d.questions) THEN <<>>
    ELSE (IF Matched(srv, d, i) /\ Available(srv, d.questions[i].type) THEN <<i>> ELSE <<>>)
         \o AnswerTriggers(srv, d, i + 1)

RECURSIVE AdditionalTriggers(_, _, _)
\* for each additional record of a pass, the number of the question that triggered it
AdditionalTriggers(srv, d, i) ==
    IF i > Len(d.questions) THEN <<>>
    ELSE (IF Matched(srv, d, i)
          THEN [k \in 1..Len(AdditionalOf(srv, d.questions[i].type)) |-> i]
          ELSE <<>>)
         \o AdditionalTriggers(srv, d, i + 1)

\* for each record of a reply, the number of the question that triggered it
Triggers(srv, d) == AnswerTriggers(srv, d, 1) \o AdditionalTriggers(srv, d, 1)

\* C18 as stated: every record of a reply carries as its name the name of the
\* question that triggered it.
C18_RecordNamedByQuestion ==
    (Written /\ AnswerableQuery(call.datagram)) =>
        /\ Len(Triggers(server, call.datagram)) = Len(ReplyRecords(call.written))
        /\ \A k \in 1..Len(ReplyRecords(call.written)) :
               ReplyRecords(call.written)[k].name
                 = QuestionLabels(call.datagram, Triggers(server, call.datagram)[k])

\* C18 amended: every record carries the name the responder builds from its
\* configuration for the record's own type: {instance, local} for A and AAAA,
\* {instance, serviceName, type, local} for SRV and TXT, {serviceName, type,
\* local} for PTR. For an answer record that is the name of the question that
\* triggered it whenever that question's labels are the pattern of its type; an
\* additional record is named by its own type, not by the triggering question.
C18_RecordNamedByType ==
    (Written /\ AnswerableQuery(call.datagram)) =>
        /\ Len(Triggers(server, call.datagram)) = Len(ReplyRecords(call.written))
        /\ \A k \in 1..Len(ReplyRecords(call.written)) :
               /\ ReplyRecords(call.written)[k].name
                    = PatternOfType(server, ReplyRecords(call.written)[k].type)
               /\ ReplyRecords(call.written)[k].nameBytes
                    = EncodeHostname(PatternOfType(server, ReplyRecords(call.written)[k].type))
               /\ (k <= call.pass.answersCount
                   /\ MatchesOwnPattern(server, call.datagram, Triggers(server, call.datagram)[k]))
                    => ReplyRecords(call.written)[k].name
                         = QuestionLabels(call.datagram, Triggers(server, call.datagram)[k])

\* C18 witness: the reply to a PTR question for the service name: the PTR
\* record named as the question, the TXT record named by the full instance
C18_Witness ==
    /\ Written /\ AnswerableQuery(call.datagram)
    /\ call.datagram.questions = <<Question("service", dnsTypePtr, dnsClassIn)>>
    /\ ReplyRecords(call.written)[1].name = QuestionLabels(call.datagram, 1)
    /\ ReplyRecords(call.written)[2].type = dnsTypeTxt
    /\ ReplyRecords(call.written)[2].name = <<server.instance, server.serviceName, server.type, local>>

\* C19: the name of every answer record of a reply is the 2-byte compression
\* pointer 0xC0 0x0C to the question name that starts behind the fixed header.
C19_AnswerNameCompressed ==
    Written =>
        \A k \in 1..ReplyHeader(call.written).answersCount :
            ReplyRecords(call.written)[k].nameBytes = rnameCompression

\* the resource data of a record of a type: the address for A and AAAA, the
\* full instance name for PTR, priority, weight, port and the host name for
\* SRV, the text's labels for TXT
ExpectedRdata(srv, type) ==
    CASE type = dnsTypeA -> srv.ipv4Address
      [] type = dnsTypeAAAA -> srv.ipv6Address
      [] type = dnsTypePtr -> EncodeHostname(<<srv.instance, srv.serviceName, srv.type, local>>)
      [] type = dnsTypeSrv -> U16(0) \o U16(0) \o U16(srv.port)
                              \o EncodeHostname(<<srv.instance, local>>)
      [] type = dnsTypeTxt -> EncodeParts(srv.text)
      [] OTHER -> <<>>

\* the resource data length of a record of a type, as the claim gives it
ExpectedRdlength(srv, type) ==
    CASE type = dnsTypeA -> 4
      [] type = dnsTypeAAAA -> 16
      [] type = dnsTypePtr -> Len(EncodeHostname(<<srv.instance, srv.serviceName, srv.type, local>>))
      [] type = dnsTypeSrv -> 6 + Len(EncodeHostname(<<srv.instance, local>>))
      [] type = dnsTypeTxt -> Len(EncodeParts(srv.text))
      [] OTHER -> 0

\* C20: every record's resource data length is the number of bytes written
\* behind its fixed part: 4 for A, 16 for AAAA, the encoded length of the
\* target name for PTR, 6 plus the encoded length of the target name for SRV,
\* the length of the text for TXT; the bytes are the record's resource data and
\* the next record, or the end of the reply, follows them.
C20_RdlengthIsPayloadLength ==
    Written =>
        /\ RecordTypes(ReplyRecords(call.written)) = LogTypes(call.pass.log)
        /\ \A k \in 1..Len(ReplyRecords(call.written)) :
               /\ ReplyRecords(call.written)[k].rdlength
                    = ExpectedRdlength(server, ReplyRecords(call.written)[k].type)
               /\ ReplyRecords(call.written)[k].rdlength = Len(ReplyRecords(call.written)[k].rdata)
               /\ ReplyRecords(call.written)[k].rdata
                    = ExpectedRdata(server, ReplyRecords(call.written)[k].type)
               /\ ReplyRecords(call.written)[k].class = dnsClassIn
               /\ ReplyRecords(call.written)[k].ttl = 60
        /\ WalkRecords(call.written, SizeofDnsRecordHeader, Len(call.pass.log))
             = Len(call.written)

\* C20 witness: a reply with a record of each of the five types
C20_Witness ==
    /\ Written
    /\ {ReplyRecords(call.written)[k].type : k \in 1..Len(ReplyRecords(call.written))}
         = SupportedTypes
    /\ \E k \in 1..Len(ReplyRecords(call.written)) :
           /\ ReplyRecords(call.written)[k].type = dnsTypeTxt
           /\ ReplyRecords(call.written)[k].rdlength = 4

\* the mDNS multicast group and port
MulticastSocket == [address |-> mdnsMulticastAddress, port |-> mdnsPort]

\* C21: every send buffer requested is addressed to 224.0.0.251, port 5353,
\* whoever sent the query: the request a query leads to, and the reply written
\* on its grant, are those of the datagram's bytes and the service identity,
\* with no part of the sender in them.
C21_RepliesToMulticastGroup ==
    /\ \A k \in 1..Len(requests) :
           /\ requests[k].to = MulticastSocket
           /\ requests[k].to.address = <<224, 0, 0, 251>>
           /\ requests[k].to.port = 5353
    /\ (Parsed /\ call.result = "requested") =>
           requests = <<[sendSize |-> call.pass.processed, to |-> MulticastSocket]>>
    /\ Written =>
           /\ call.from = MulticastSocket
           /\ call.written
                = QuestionParserWrite(server, [data |-> Wire(call.datagram), pos |-> 0],
                                      GrantedWriter(dryRun.processed)).writer.data

\* C21 witness: a query from the second sender led to a request
C21_Witness ==
    /\ Parsed
    /\ call.result = "requested"
    /\ call.from = [address |-> <<10, 0, 0, 2>>, port |-> mdnsPort]
    /\ requests[1].to = MulticastSocket

\* C22: a DataReceived call for a datagram whose source port is not 5353
\* parses nothing, retains nothing, requests nothing and leaves the responder
\* as it was, idle or waiting with its pending reader.
C22_ForeignPortIgnored ==
    [][(call' # none /\ call'.op = "DataReceived" /\ call'.from.port # mdnsPort) =>
           /\ call'.result = "ignored"
           /\ call'.datagram = none
           /\ call'.pass = none
           /\ call'.retained = 0
           /\ waitingReader' = waitingReader
           /\ requests' = requests
           /\ dryRun' = dryRun
           /\ server' = server
           /\ network' = network]_vars

\* C22 witness: a datagram from port 1024 was ignored while a reader was pending
C22_Witness ==
    /\ call # none
    /\ call.op = "DataReceived"
    /\ call.from.port = 1024
    /\ call.result = "ignored"
    /\ waitingReader # none

\* the query ids of the datagrams
QueryIds == {d.id : d \in Datagrams}

\* C23: under a transport that grants every requested stream, a retained query
\* leads to its reply written (the real pass run, the header carrying its id and
\* its counts) with the reader released, a written reply leads to the idle
\* responder, and the idle responder parses the next datagram from port 5353.
C23_ReplyEventuallyWritten ==
    /\ \A id \in QueryIds :
           (waitingReader # none /\ waitingReader.datagram.id = id)
             ~> (/\ Written
                 /\ Idle
                 /\ ReplyHeader(call.written).id = id
                 /\ ReplyHeader(call.written).answersCount = dryRun.answersCount
                 /\ ReplyHeader(call.written).answersCount > 0)
    /\ Written ~> (Idle /\ call = none)
    /\ [][(Idle /\ call' # none /\ call'.op = "DataReceived" /\ call'.from.port = mdnsPort)
              => (call'.datagram # none /\ call'.result \in {"requested", "no answer"})]_vars

\* C23 witness: a reply was written after a later datagram had been dropped
\* meanwhile (the dry run's record is that of the reader retained first)
C23_Witness ==
    /\ Written
    /\ Idle
    /\ call.datagram.id = 65535
    /\ ReplyHeader(call.written).id = 65535

\* the step is a call of SendStreamAvailable
GrantStep == call' # none /\ call'.op = "SendStreamAvailable"

\* C24, as claimed: while a reader is retained, every step that is not a grant
\* leaves the reader retained and the request outstanding, however many there
\* are: a DataReceived call is dropped (or ignored), a return changes nothing,
\* and nothing but SendStreamAvailable clears the slot.
C24_NoTimeout ==
    [][(waitingReader # none /\ ~GrantStep) =>
           /\ waitingReader' = waitingReader
           /\ requests' = requests
           /\ Len(requests') = 1
           /\ dryRun' = dryRun
           /\ call' # none => (call'.op = "DataReceived"
                               /\ call'.result \in {"dropped", "ignored"}
                               /\ call'.released = 0)]_vars

\* C24, amended: while a reader is retained and the responder exists, every
\* step that is not a grant leaves the reader retained and the request
\* outstanding, however many there are; besides SendStreamAvailable only the
\* destruction of the responder clears the slot.
C24_NoTimeoutWhileAlive ==
    [][(waitingReader # none /\ ~GrantStep) =>
           \/ /\ DestroyStep
              /\ waitingReader' = none
           \/ /\ network' = network
              /\ waitingReader' = waitingReader
              /\ requests' = requests
              /\ Len(requests') = 1
              /\ dryRun' = dryRun
              /\ call' # none => (call'.op = "DataReceived"
                                  /\ call'.result \in {"dropped", "ignored"}
                                  /\ call'.released = 0)]_vars

\* C24 witness: with the request still outstanding, a datagram of the second
\* sender was dropped
C24_Witness ==
    /\ waitingReader # none
    /\ requests # <<>>
    /\ call # none
    /\ call.result = "dropped"
    /\ call.from.address = <<10, 0, 0, 2>>

\* C25: the responder listened once, on port 5353 with IPv4 only, and joined
\* 224.0.0.251 once, on that exchange; it has left no group while it exists
\* and has left that group on that exchange, once, when it is destroyed; no
\* handler call listens, joins or leaves.
C25_Lifecycle ==
    /\ [](/\ network.listening = <<[port |-> 5353, versions |-> "ipv4"]>>
          /\ network.joined = <<[exchange |-> 1, group |-> <<224, 0, 0, 251>>]>>
          /\ network.alive => network.left = <<>>
          /\ ~network.alive => network.left = network.joined)
    /\ [][/\ call' # none => network' = network
          /\ network' # network =>
                 (/\ network.alive /\ ~network'.alive
                  /\ network'.left = Append(network.left, GroupOnExchange)
                  /\ network'.listening = network.listening
                  /\ network'.joined = network.joined)]_vars

\* C25 witness: a responder destroyed after it had handled datagrams, while a
\* send stream was awaited
C25_Witness ==
    /\ ~network.alive
    /\ network.left = <<GroupOnExchange>>
    /\ dryRun # none /\ dryRun.answersCount = 2

\* C26: no pass of the parser, dry or real, over any datagram reaches the
\* default branch of the answer dispatch: every record a pass added as an
\* answer has one of the five types A, AAAA, PTR, SRV, TXT.
C26_AbortUnreachable ==
    (call # none /\ call.pass # none) =>
        \A i \in 1..Len(call.pass.log) :
            /\ call.pass.log[i].section # "abort"
            /\ call.pass.log[i].section = "answer" => call.pass.log[i].type \in SupportedTypes

\* C26 witness: a query whose TXT question entered the dispatch and whose next
\* question, of the unsupported type 2, was rejected before it
C26_Witness ==
    /\ Parsed
    /\ call.datagram.questions = <<Question("full", dnsTypeTxt, dnsClassIn),
                                   Question("other", 2, dnsClassIn)>>
    /\ call.pass.log = <<[section |-> "answer", type |-> dnsTypeTxt]>>
    /\ ~call.pass.present

\* the real pass of a responder srv that has handled nothing before datagram d:
\* the reader where the dry run of d left it, the writer of the size it asked for
FreshReply(srv, d) ==
    LET Real(dry) == QuestionParserWrite(srv, [data |-> Wire(d), pos |-> dry.pos],
                                         GrantedWriter(dry.writer.processed))
    IN  Real(QuestionParserDryRun(srv, [data |-> Wire(d), pos |-> 0]))

\* C27: a cycle that ended (reply written, or datagram found to have no
\* answer) leaves no reader and no request behind, a datagram that was ignored
\* or dropped changes neither, and the identity never changes; what the dry
\* run finds and what the real pass writes are what a responder that has
\* handled nothing before finds and writes for that datagram.
C27_NoStateAcrossDatagrams ==
    /\ []((call # none /\ call.result \in {"written", "no answer"}) => Idle)
    /\ [](Parsed => call.pass = Summary(QuestionParserDryRun(
                                            server, [data |-> Wire(call.datagram), pos |-> 0])))
    /\ [](Written => \E fresh \in {FreshReply(server, call.datagram)} :
                         /\ call.written = fresh.writer.data
                         /\ call.pass = Summary(fresh))
    /\ [][/\ server' = server
          /\ (call' # none /\ call'.result \in {"ignored", "dropped"}) =>
                 (waitingReader' = waitingReader /\ requests' = requests)]_vars

\* C27 witness: a reply written, with additional records, to a responder that
\* is idle again
C27_Witness ==
    /\ Written
    /\ Idle
    /\ call.pass.answersCount = 2
    /\ call.pass.additionalRecordsCount > 0

\* C28: with neither address configured a query of the one PTR question for
\* the service name has one PTR answer and the TXT and SRV additional records
\* (ancount 1, arcount 2), and a query of the one SRV question for the full
\* instance name has one SRV answer and arcount 0; in any query a matched A or
\* AAAA question whose address is not configured adds no record and leaves the
\* answer in place: pass and reply are those of the query without it.
C28_MissingAddressKeepsQueryValid ==
    /\ (server.ipv4Address = none /\ server.ipv6Address = none) =>
           /\ SingleQuestionCall(Question("service", dnsTypePtr, dnsClassIn)) =>
                  /\ call.pass.present
                  /\ call.pass.answersCount = 1
                  /\ call.pass.additionalRecordsCount = 2
                  /\ LogTypes(call.pass.log) = <<dnsTypePtr, dnsTypeTxt, dnsTypeSrv>>
                  /\ Parsed => call.result = "requested"
                  /\ Written =>
                         /\ ReplyHeader(call.written).answersCount = 1
                         /\ ReplyHeader(call.written).additionalRecordsCount = 2
                         /\ RecordTypes(ReplyRecords(call.written))
                              = <<dnsTypePtr, dnsTypeTxt, dnsTypeSrv>>
           /\ SingleQuestionCall(Question("full", dnsTypeSrv, dnsClassIn)) =>
                  /\ call.pass.present
                  /\ call.pass.answersCount = 1
                  /\ call.pass.additionalRecordsCount = 0
                  /\ LogTypes(call.pass.log) = <<dnsTypeSrv>>
                  /\ Parsed => call.result = "requested"
                  /\ Written =>
                         /\ ReplyHeader(call.written).answersCount = 1
                         /\ ReplyHeader(call.written).additionalRecordsCount = 0
                         /\ RecordTypes(ReplyRecords(call.written)) = <<dnsTypeSrv>>
    /\ (call # none /\ call.datagram # none /\ AnswerableQuery(call.datagram)) =>
           \A i \in 1..Len(call.datagram.questions) :
               (/\ call.datagram.questions[i].type \in {dnsTypeA, dnsTypeAAAA}
                /\ Matched(server, call.datagram, i)
                /\ ~Available(server, call.datagram.questions[i].type)
                /\ KeepsNames(call.datagram, i)) =>
                   /\ call.pass.present
                   /\ Parsed => call.pass
                                  = Summary(QuestionParserDryRun(
                                                server, [data |-> Wire(Without(call.datagram, i)),
                                                         pos |-> 0]))
                   /\ Written => call.written
                                   = FreshReply(server, Without(call.datagram, i)).writer.data

\* C28 witness: no address configured, a query of an A question for the short
\* name and a PTR question for the service name: a reply is asked for, with the
\* PTR answer and the TXT and SRV additional records
C28_Witness ==
    /\ Parsed
    /\ server.ipv4Address = none /\ server.ipv6Address = none
    /\ call.datagram.questions = <<Question("short", dnsTypeA, dnsClassIn),
                                   Question("service", dnsTypePtr, dnsClassIn)>>
    /\ AnswerableQuery(call.datagram)
    /\ call.result = "requested"
    /\ LogTypes(call.pass.log) = <<dnsTypePtr, dnsTypeTxt, dnsTypeSrv>>

\* the labels a question name decodes to: ReadHostname over the bytes, then the
\* split into parts that HostNameIs works on
DecodedLabels(data, pos) ==
    DnsHostnamePartsString(ReadHostname(NewParser(pos), data).reconstructedHostname)

\* C29: the name of a question that is the uncompressed encoding of a sequence
\* of labels decodes, by ReadHostname and the split of HostNameIs, to that
\* sequence of labels.
C29_NameRoundTrip ==
    (/\ Parsed
     /\ Len(call.datagram.questions) = 1
     /\ call.datagram.cut = 0
     /\ call.datagram.questions[1].name \in PlainNames
     /\ NameWire(call.datagram.questions[1].name)
          = EncodeHostname(NameLabels(call.datagram.questions[1].name))) =>
        DecodedLabels(Wire(call.datagram), SizeofDnsRecordHeader)
          = NameLabels(call.datagram.questions[1].name)

\* the bytes of the real pass over datagram d before Finish: CreateAnswer over
\* the writer granted for the size the dry run asked for
UnfinishedReply(srv, d) ==
    LET Real(dry) == CreateAnswer(NewParser(dry.pos), Wire(d), srv,
                                  GrantedWriter(dry.writer.processed))
    IN  Real(QuestionParserDryRun(srv, [data |-> Wire(d), pos |-> 0])).writer.data

\* the bytes of a reply from offset 12 on
BehindHeader(bytes) == SubSeq(bytes, SizeofDnsRecordHeader + 1, Len(bytes))

\* C30: the answer builder starts the reply with 12 bytes that are the header
\* of the query's id, the response flag and four counts of zero, ahead of
\* every record; Finish replaces these 12 bytes by the header with the counts
\* and leaves the length of the reply and every byte behind them as they were.
C30_FinishOverwritesHeaderOnly ==
    Written =>
        /\ AnswerEmplace(NewParser(0), call.datagram.id, GrantedWriter(call.pass.processed)).writer.data
             = HeaderBytes(call.datagram.id, flagsResponse, 0, 0, 0, 0)
        /\ \E unfinished \in {UnfinishedReply(server, call.datagram)} :
               /\ SubSeq(unfinished, 1, SizeofDnsRecordHeader)
                    = HeaderBytes(call.datagram.id, flagsResponse, 0, 0, 0, 0)
               /\ Len(call.written) = Len(unfinished)
               /\ BehindHeader(call.written) = BehindHeader(unfinished)
               /\ SubSeq(call.written, 1, SizeofDnsRecordHeader)
                    = HeaderBytes(call.datagram.id, flagsResponse, 0, call.pass.answersCount,
                                  0, call.pass.additionalRecordsCount)

\* C30 witness: a reply with records behind the header, whose header Finish
\* changed from the provisional one
C30_Witness ==
    /\ Written
    /\ Len(call.written) > SizeofDnsRecordHeader
    /\ SubSeq(call.written, 1, SizeofDnsRecordHeader)
         # SubSeq(UnfinishedReply(server, call.datagram), 1, SizeofDnsRecordHeader)
    /\ call.datagram.id = 65535

RECURSIVE AdditionalForAnswers(_, _)
\* the additional records called for by a sequence of answers, by their types
\* in order: those of a PTR answer, those of an SRV answer, none for the others
AdditionalForAnswers(srv, types) ==
    IF types = <<>> THEN <<>>
    ELSE AdditionalOf(srv, Head(types)) \o AdditionalForAnswers(srv, Tail(types))

\* C31: the second sub-pass goes over the questions the first went over and
\* decides as the first did: the additional records of a pass that kept its
\* answer are, in order, those called for by the PTR and SRV answers the first
\* sub-pass added, and a pass that lost its answer added none.
C31_SecondPassFollowsFirst ==
    (call # none /\ call.pass # none) =>
        LogTypes(SelectSeq(call.pass.log, IsAdditionalEntry))
          = IF call.pass.present
            THEN AdditionalForAnswers(server, LogTypes(SelectSeq(call.pass.log, IsAnswerEntry)))
            ELSE <<>>

\* C31 witness: a pass over an SRV and a PTR question, both addresses
\* configured: A, AAAA for the first and TXT, SRV, A, AAAA for the second
C31_Witness ==
    /\ Written
    /\ LogTypes(SelectSeq(call.pass.log, IsAnswerEntry)) = <<dnsTypeSrv, dnsTypePtr>>
    /\ LogTypes(SelectSeq(call.pass.log, IsAdditionalEntry))
         = <<dnsTypeA, dnsTypeAAAA, dnsTypeTxt, dnsTypeSrv, dnsTypeA, dnsTypeAAAA>>

\* C32: a send stream is asked for only by a DataReceived whose dry run over
\* its datagram found an answer, and then once, the reader retained at offset
\* 0; a real pass runs only on the grant of that one request, over the
\* datagram of that dry run, and its bytes are those of a parse of the
\* datagram from its first byte into the writer granted.
C32_DryRunRequestRealPass ==
    [][/\ requests' # requests /\ Len(requests') >= Len(requests) =>
              /\ requests = <<>>
              /\ Len(requests') = 1
              /\ call'.op = "DataReceived"
              /\ call'.pass = Summary(QuestionParserDryRun(
                                          server, [data |-> Wire(call'.datagram), pos |-> 0]))
              /\ call'.pass.present /\ call'.pass.answersCount > 0
              /\ dryRun' = call'.pass
              /\ waitingReader' = [datagram |-> call'.datagram, pos |-> 0]
       /\ (call' # none /\ call'.op = "SendStreamAvailable" /\ call'.result = "written") =>
              /\ Len(requests) = 1 /\ requests' = <<>>
              /\ waitingReader = [datagram |-> call'.datagram, pos |-> 0]
              /\ dryRun = Summary(QuestionParserDryRun(
                                      server, [data |-> Wire(call'.datagram), pos |-> 0]))
              /\ dryRun.present /\ dryRun.answersCount > 0
              /\ requests[1].sendSize = dryRun.processed
              /\ call'.written
                   = QuestionParserWrite(server, [data |-> Wire(call'.datagram), pos |-> 0],
                                         GrantedWriter(requests[1].sendSize)).writer.data
              /\ ReplyHeader(call'.written).id = call'.datagram.id]_vars

\* C32 witness: the real pass has run over a query of two questions whose dry
\* run asked for the stream
C32_Witness ==
    /\ Written
    /\ dryRun # none /\ dryRun.answersCount = 2
    /\ Len(call.datagram.questions) = 2
    /\ call.pass.log = dryRun.log

\* C33: every record of a reply, answer or additional, has class Internet and
\* a time to live of 60, and its type is the type of the add operation that
\* wrote it: the records are as many as the operations of the pass, type by
\* type in their order.
C33_ClassTtlType ==
    Written =>
        \E records \in {ReplyRecords(call.written)} :
            /\ Len(records) = Len(call.pass.log)
            /\ \A k \in 1..Len(records) :
                   /\ records[k].class = dnsClassIn
                   /\ records[k].ttl = 60
                   /\ records[k].type = call.pass.log[k].type
                   /\ records[k].type \in SupportedTypes

\* C33 witness: a reply with records of all five types
C33_Witness ==
    /\ Written
    /\ {ReplyRecords(call.written)[k].type : k \in 1..Len(ReplyRecords(call.written))}
         = SupportedTypes
    /\ Len(ReplyRecords(call.written)) = 6

\* the resource data of a record is a name of the given labels and nothing more
IsEncodedName(rdata, labels) ==
    /\ DnsHostnamePartsStream(rdata, 0).labels = labels
    /\ DnsHostnamePartsStream(rdata, 0).pos = Len(rdata)
    /\ rdata = EncodeHostname(labels)

\* the resource data of a record is what the claim gives for its type
PayloadAsClaimed(srv, record) ==
    CASE record.type = dnsTypeA -> srv.ipv4Address # none /\ record.rdata = srv.ipv4Address
      [] record.type = dnsTypeAAAA -> srv.ipv6Address # none /\ record.rdata = srv.ipv6Address
      [] record.type = dnsTypePtr ->
             IsEncodedName(record.rdata, <<srv.instance, srv.serviceName, srv.type, local>>)
      [] record.type = dnsTypeSrv ->
             /\ Len(record.rdata) > 6
             /\ U16At(record.rdata, 1) = 0
             /\ U16At(record.rdata, 2) = 0
             /\ U16At(record.rdata, 3) = srv.port
             /\ IsEncodedName(SubSeq(record.rdata, 7, Len(record.rdata)), <<srv.instance, local>>)
      [] record.type = dnsTypeTxt ->
             /\ record.rdata = EncodeParts(srv.text)
             /\ record.rdata # EncodeHostname(srv.text)
      [] OTHER -> FALSE

\* C34: the resource data of every record of a reply are the IPv4 address for
\* A, the IPv6 address for AAAA, the encoded full instance name for PTR,
\* priority 0, weight 0, the port and the encoded name {instance, local} for
\* SRV, the text without a terminating zero label for TXT; no pass adds an A
\* (AAAA) record when no IPv4 (IPv6) address is configured.
C34_RecordPayloads ==
    /\ Written =>
           \A k \in 1..Len(ReplyRecords(call.written)) :
               PayloadAsClaimed(server, ReplyRecords(call.written)[k])
    /\ (call # none /\ call.pass # none) =>
           \A k \in 1..Len(call.pass.log) :
               /\ call.pass.log[k].type = dnsTypeA => server.ipv4Address # none
               /\ call.pass.log[k].type = dnsTypeAAAA => server.ipv6Address # none

\* C34 witness: the reply to a PTR question, both addresses configured: the
\* PTR, TXT, SRV, A and AAAA records
C34_Witness ==
    /\ Written
    /\ call.datagram.questions = <<Question("service", dnsTypePtr, dnsClassIn)>>
    /\ RecordTypes(ReplyRecords(call.written))
         = <<dnsTypePtr, dnsTypeTxt, dnsTypeSrv, dnsTypeA, dnsTypeAAAA>>
    /\ U16At(ReplyRecords(call.written)[3].rdata, 3) = 8080

\* C35: under a transport that grants a send stream once for each request and
\* never without one, one request is outstanding when a reader is retained and
\* none otherwise, so no grant finds the responder without a reader: the
\* assertion of SendStreamAvailable never fails.
C35_AssertionHolds ==
    /\ Len(requests) = (IF waitingReader # none THEN 1 ELSE 0)
    /\ call # none => call.result # "assert"
    /\ (call # none /\ call.op = "SendStreamAvailable") => call.released = 1

\* C35 witness: the handler has returned and one request waits for its grant,
\* the reader retained
C35_Witness ==
    /\ call = none
    /\ waitingReader # none
    /\ Len(requests) = 1
    /\ network.alive

\* C36: the real pass over a granted writer keeps its answer and finishes it:
\* the reply fills the writer granted, without overflow, and its header has
\* the response flag and the answers count of the pass, at least 1; in every
\* pass, dry or real, additional records come only with answers.
C36_GrantEndsAsReply ==
    /\ Written =>
           /\ call.pass.present
           /\ ~call.overflow
           /\ dryRun # none /\ Len(call.written) = dryRun.processed
           /\ ReplyHeader(call.written).flags = flagsResponse
           /\ ReplyHeader(call.written).answersCount = call.pass.answersCount
           /\ ReplyHeader(call.written).answersCount >= 1
           /\ ReplyHeader(call.written).additionalRecordsCount = call.pass.additionalRecordsCount
    /\ (call # none /\ call.pass # none) =>
           (call.pass.additionalRecordsCount > 0 => call.pass.answersCount > 0)

\* C36 witness: the reply to an SRV question, the IPv6 address alone
\* configured: one answer, one additional record
C36_Witness ==
    /\ Written
    /\ call.datagram.questions = <<Question("full", dnsTypeSrv, dnsClassIn)>>
    /\ server.ipv4Address = none /\ server.ipv6Address # none
    /\ ReplyHeader(call.written).answersCount = 1
    /\ ReplyHeader(call.written).additionalRecordsCount = 1

RECURSIVE ExpectedAnswers(_, _, _)
\* the answer records called for by the questions of a datagram from question
\* i on: for each matched question whose record is available, its type
ExpectedAnswers(srv, d, i) ==
    IF i > Len(d.questions) THEN <<>>
    ELSE (IF Matched(srv, d, i) /\ Available(srv, d.questions[i].type)
          THEN <<d.questions[i].type>> ELSE <<>>)
         \o ExpectedAnswers(srv, d, i + 1)

\* C37: the records of a reply are the answers, one for each question that
\* has one and in the order of the questions, and behind all of them the
\* additional records, question by question in the order of the questions:
\* TXT, SRV, A, AAAA for a PTR question, A, AAAA for an SRV question.
C37_RecordOrder ==
    (Written /\ AnswerableQuery(call.datagram)) =>
        /\ RecordTypes(ReplyRecords(call.written))
             = ExpectedAnswers(server, call.datagram, 1)
               \o ExpectedAdditional(server, call.datagram, 1)
        /\ ReplyHeader(call.written).answersCount
             = Len(ExpectedAnswers(server, call.datagram, 1))
        /\ (server.ipv4Address # none /\ server.ipv6Address # none) =>
               /\ AdditionalOf(server, dnsTypePtr)
                    = <<dnsTypeTxt, dnsTypeSrv, dnsTypeA, dnsTypeAAAA>>
               /\ AdditionalOf(server, dnsTypeSrv) = <<dnsTypeA, dnsTypeAAAA>>

\* C37 witness: the reply to an SRV and a PTR question, both addresses
\* configured: the two answers, then A, AAAA, then TXT, SRV, A, AAAA
C37_Witness ==
    /\ Written
    /\ call.datagram.questions = <<Question("full", dnsTypeSrv, dnsClassIn),
                                   Question("service", dnsTypePtr, dnsClassIn)>>
    /\ RecordTypes(ReplyRecords(call.written))
         = <<dnsTypeSrv, dnsTypePtr, dnsTypeA, dnsTypeAAAA,
             dnsTypeTxt, dnsTypeSrv, dnsTypeA, dnsTypeAAAA>>

\* C38: a datagram whose header is a query and declares no question, with or
\* without bytes behind the header, has no answer: the dry run adds no record,
\* no send stream is asked for, DataReceived releases the reader it took, the
\* responder stays idle, and no reply is ever written for such a datagram.
C38_NoQuestionsNoReply ==
    /\ (Parsed /\ ~HeaderRejectable(call.datagram) /\ call.datagram.questionsCount = 0) =>
           /\ call.result = "no answer"
           /\ call.pass.answersCount = 0
           /\ call.pass.additionalRecordsCount = 0
           /\ call.pass.log = <<>>
           /\ call.retained = 1 /\ call.released = 1
           /\ Idle
    /\ Written => call.datagram.questionsCount # 0

\* C38 witness: a query that declares no question and carries one has been
\* parsed and dropped
C38_Witness ==
    /\ Parsed
    /\ ~HeaderRejectable(call.datagram)
    /\ call.datagram.questionsCount = 0
    /\ call.datagram.questions = <<Question("service", dnsTypePtr, dnsClassIn)>>
    /\ call.result = "no answer"
    /\ waitingReader = none

====
